---- MODULE Spec2Model ----
(***************************************************************************)
(* Dropship invoicing pipeline: order assembly (dropship_db.py), OMS       *)
(* reconciliation (seller_cloud_data.py, seller_cloud_api.py), the         *)
(* accounting-system invoice builder (invoice.py) and the driver main()    *)
(* (main.py).                                                              *)
(*                                                                         *)
(* Conventions of the model                                                *)
(*   - a Python str that the code slices or concatenates (partner code,    *)
(*     PO number, order_id) is a sequence of one-character strings;        *)
(*   - a monetary amount is an integer number of cents;                    *)
(*   - a unit cost line_total / q is kept as the record                    *)
(*     [num |-> line_total, den |-> q]; the export renderer computes its   *)
(*     prices in binary doubles (section "binary doubles"), the invoice    *)
(*     builder's amounts are the exact quotients;                          *)
(*   - a falsy Python value (None, 0, "", {}, []) of an integer field is   *)
(*     0, of a string field "".                                            *)
(***************************************************************************)
EXTENDS Integers, Sequences, FiniteSets, TLC

\* ------------------------------------------------------------------ bounds
\* most invocations of the invoice builder on one QbInvoice client
MaxBuilds == 3
\* longest partner code and PO number of the normalisation harness
MaxCodeLen == 2
MaxPoLen == 3
\* most eligible rows the source database returns in one run
MaxRows == 3
\* most runs of main() over the same database content
MaxRuns == 2
\* most items of an order handed to the renderer, and their largest quantity
MaxItems == 2
MaxQty == 2

\* ----------------------------------------------------------------- strings
Chars == {"A", "B"}

Min(a, b) == IF a <= b THEN a ELSE b

\* all strings over Chars of length 0..n
StrsUpTo(n) == UNION {[1..k -> Chars] : k \in 0..n}

\* Python s[:n]
Prefix(s, n) == SubSeq(s, 1, Min(n, Len(s)))

\* a mutation of _ensure_order_id: the prefix test is forgotten
EnsureOrderIdAlwaysPrefix(code, purchase_order_number) ==
    code \o purchase_order_number

\* DropshipDb._ensure_order_id
EnsureOrderId(code, purchase_order_number) ==
    LET code_len == Len(code)
    IN  IF Prefix(purchase_order_number, code_len) = code
        THEN purchase_order_number
        ELSE code \o purchase_order_number

\* ------------------------------------------------------- source database
\* placeholder "" of tax and subtotal before reconciliation
NoAmount == -1

\* the unit cost 0.0 the assembler attaches to every item
ZeroCost == [num |-> 0, den |-> 1]

Codes == {<<"A">>, <<"B">>}

\* The eligible row at position i (ORDER BY po.id) for partner `code`: the PO
\* number is already prefixed by the partner code on odd positions only; the
\* items and the OMS key vary with the position.
DigitChar(i) ==
    CASE i = 1 -> "1" [] i = 2 -> "2" [] i = 3 -> "3" [] i = 4 -> "4" [] OTHER -> "9"

RowPo(i, code) ==
    IF i % 2 = 1 THEN code \o <<"P", DigitChar(i)>> ELSE <<"P", DigitChar(i)>>

RowItemsJson(i, code) ==
    CASE i = 1 -> <<[sku |-> "S1", quantity |-> 2]>>
      [] i = 2 -> <<[sku |-> "S1", quantity |-> 0], [sku |-> "S2", quantity |-> 1]>>
      [] i = 3 /\ code = <<"A">> -> <<[sku |-> "S2", quantity |-> 3]>>
      [] OTHER -> <<[sku |-> "S1", quantity |-> 1]>>

RowScId(i, code) ==
    IF (i = 3 /\ code = <<"B">>) \/ i > 4 THEN 0 ELSE 100 + i

RowAt(i, code) ==
    [ id |-> i,
      purchase_order_number |-> RowPo(i, code),
      sellercloud_order_id |-> RowScId(i, code),
      shipping_cost |-> 500,
      tracking_number |-> "TRK",
      tracking_date |-> [y |-> 2025, m |-> 7, d |-> 7],
      city |-> "City", zip |-> "Zip", address |-> "Street",
      state |-> "ST", country |-> "US",
      code |-> code,
      name |-> IF code = <<"A">> THEN "DropA" ELSE "DropB",
      ftp_folder_name |-> IF code = <<"A">> THEN "folderA" ELSE "folderB",
      file_format_name |-> IF code = <<"A">> THEN "aag" ELSE "default",
      items_json |-> RowItemsJson(i, code) ]

\* the row sets the query can return: 0..MaxRows rows in id order
RowSets ==
    UNION { { [i \in 1..k |-> RowAt(i, cs[i])] : cs \in [1..k -> Codes] } : k \in 0..MaxRows }

\* a date string: its format and its fields; "" is EmptyDate
EmptyDate == [fmt |-> "", y |-> 0, m |-> 0, d |-> 0]

\* row.tracking_date.strftime("%Y/%m/%d") if row.tracking_date else ""
ShipDateOfRow(row) ==
    IF row.tracking_date.y = 0 THEN EmptyDate
    ELSE [fmt |-> "Y/m/d", y |-> row.tracking_date.y, m |-> row.tracking_date.m,
          d |-> row.tracking_date.d]

\* get_invoice_ready_orders: one order dict from one row
OrderOfRow(row) ==
    [ items |-> [k \in 1..Len(row.items_json) |->
                    <<row.items_json[k].sku, row.items_json[k].quantity, ZeroCost>>],
      purchase_order_number |-> row.purchase_order_number,
      sellercloud_order_id |-> row.sellercloud_order_id,
      tax |-> NoAmount,
      shipping |-> row.shipping_cost,
      subtotal |-> NoAmount,
      code |-> row.code,
      tracking_number |-> row.tracking_number,
      ship_date |-> ShipDateOfRow(row),
      city |-> row.city, state |-> row.state, country |-> row.country,
      postal_code |-> row.zip, address |-> row.address,
      dropshipper_name |-> row.name,
      order_id |-> EnsureOrderId(row.code, row.purchase_order_number) ]

\* position of key in the insertion-ordered mapping, 0 when absent
KeyIndex(mapping, key) ==
    LET hits == {b \in 1..Len(mapping) : mapping[b].key = key}
    IN  IF hits = {} THEN 0 ELSE CHOOSE b \in hits : TRUE

\* get_invoice_ready_orders: group the rows into buckets keyed by
\* (code, ftp_folder_name), in order of first appearance
RECURSIVE AssembleRows(_, _)
AssembleRows(rows, result) ==
    IF rows = <<>> THEN result
    ELSE LET row == Head(rows)
             ds_key == <<row.code, row.ftp_folder_name>>
             b == KeyIndex(result, ds_key)
             order == OrderOfRow(row)
         IN  IF b # 0
             THEN AssembleRows(Tail(rows),
                    [result EXCEPT ![b].orders = Append(@, order)])
             ELSE AssembleRows(Tail(rows),
                    Append(result, [ key |-> ds_key,
                                     orders |-> <<order>>,
                                     file_format_name |-> row.file_format_name,
                                     ftp_folder_name |-> row.ftp_folder_name ]))

GetInvoiceReadyOrders(rows) == AssembleRows(rows, <<>>)

\* ------------------------------------------------------------- OMS client
\* SellerCloudAPI.execute(data, action) is the client main() uses; "new"
\* is an injected client with the signature execute(action, data=...).
ApiSignature == "legacy"

\* One OMS item record; "" and 0 stand for an absent key.
ScItem(pid, sku, line_total, qty, quantity) ==
    [ ProductIDOriginal |-> pid, SKU |-> sku, ProductSKU |-> "",
      LineTotal |-> line_total, Qty |-> qty, Quantity |-> quantity ]

\* the totals of the OMS record: Tax 1.60, GrandTotal 23.18
OmsTotalInfo == [Tax |-> 160, GrandTotal |-> 2318]

\* the OrderItems lists the OMS answers with
OmsItemLists ==
    { << ScItem("S1", "", 1998, 2, 0), ScItem("S2", "", 1000, 1, 0) >>,
      << ScItem("S2", "", 1000, 1, 0) >>,
      << ScItem("S1", "", 1998, 0, 0), ScItem("S2", "", 1000, 1, 0) >>,
      << ScItem("", "S1", 500, 1, 0), ScItem("", "S1", 1998, 0, 3),
         ScItem("S2", "", 1000, 1, 0) >>,
      << ScItem("S1", "", 1998, 0, -1) >> }

NoBody == [ kind |-> "none", TotalInfo |-> [Tax |-> 0, GrandTotal |-> 0], OrderItems |-> <<>> ]

\* the parsed JSON bodies: a dict, a truthy non-dict value, a falsy value
OmsBodies ==
    { [ kind |-> "dict", TotalInfo |-> OmsTotalInfo,
        OrderItems |-> its ] : its \in OmsItemLists }
    \cup { [NoBody EXCEPT !.kind = "nondict"], [NoBody EXCEPT !.kind = "falsy"] }

\* what one GET /Orders/{id} can do: raise a transport error, or answer with
\* a status and a body that parses or not; the 404 answer carries a JSON
\* object without totals and items
OmsOutcomes ==
    { [ kind |-> "transport_error", status |-> 0, parses |-> FALSE, body |-> NoBody ],
      [ kind |-> "response", status |-> 404, parses |-> TRUE,
        body |-> [NoBody EXCEPT !.kind = "dict"] ],
      [ kind |-> "response", status |-> 200, parses |-> FALSE, body |-> NoBody ] }
    \cup { [ kind |-> "response", status |-> 200, parses |-> TRUE, body |-> b ] : b \in OmsBodies }

FetchRaise == [ kind |-> "raise", body |-> NoBody ]
FetchNone == [ kind |-> "none", body |-> NoBody ]

\* a mutation of _fetch_sc_order: the status of the response is not looked at
FetchScOrderAnyStatus(sig, sc_id, outcome) ==
    IF sig = "legacy" /\ sc_id = 0 THEN FetchRaise
    ELSE IF outcome.kind = "transport_error"
         THEN (IF sig = "legacy" THEN FetchRaise ELSE FetchNone)
    ELSE IF ~outcome.parses THEN FetchNone
    ELSE [ kind |-> "json", body |-> outcome.body ]

\* seller_cloud_data._fetch_sc_order over SellerCloudAPI.execute: with the
\* legacy signature the first call raises TypeError and the fallback call runs
\* inside the except clause, so what it raises leaves _fetch_sc_order.
FetchScOrder(sig, sc_id, outcome) ==
    IF sig = "legacy" /\ sc_id = 0 THEN FetchRaise
    ELSE IF outcome.kind = "transport_error"
         THEN (IF sig = "legacy" THEN FetchRaise ELSE FetchNone)
    ELSE IF outcome.status # 200 THEN FetchNone
    ELSE IF ~outcome.parses THEN FetchNone
    ELSE [ kind |-> "json", body |-> outcome.body ]

\* --------------------------------------------------------- reconciliation
\* key of an OMS item in the lookup: ProductIDOriginal or SKU or ProductSKU
ScItemKey(it) ==
    IF it.ProductIDOriginal # "" THEN it.ProductIDOriginal
    ELSE IF it.SKU # "" THEN it.SKU ELSE it.ProductSKU

\* int(it.get("Qty") or it.get("Quantity") or 0)
ScItemQty(it) == IF it.Qty # 0 THEN it.Qty ELSE it.Quantity

\* id_to_totals.get(sku, (0.0, 0)): the last OMS item of that key wins
IdToTotalsGet(sc_items, sku) ==
    LET hits == {k \in 1..Len(sc_items) : ScItemKey(sc_items[k]) = sku}
    IN  IF hits = {} THEN <<0, 0>>
        ELSE LET k == CHOOSE x \in hits : \A y \in hits : y <= x
             IN  <<sc_items[k].LineTotal, ScItemQty(sc_items[k])>>

\* a mutation of the guard: only a negative quantity is rejected
QtyRejectedNegativeOnly(q) == q < 0

\* the guard `if q <= 0: return False`
QtyRejected(q) == q <= 0

\* the item loop of _enrich_order_with_sc; divzero records that line_total / q
\* was evaluated with q = 0 (ZeroDivisionError, caught by the except clause)
RECURSIVE EnrichItems(_, _, _)
EnrichItems(items, sc_items, new_items) ==
    IF items = <<>> THEN [ok |-> TRUE, items |-> new_items, divzero |-> FALSE]
    ELSE LET sku == Head(items)[1]
             qty == Head(items)[2]
             tot == IdToTotalsGet(sc_items, sku)
             line_total == tot[1]
             sc_qty == tot[2]
             q == IF qty # 0 THEN qty ELSE sc_qty
         IN  IF QtyRejected(q) THEN [ok |-> FALSE, items |-> new_items, divzero |-> FALSE]
             ELSE IF q = 0 THEN [ok |-> FALSE, items |-> new_items, divzero |-> TRUE]
             ELSE EnrichItems(Tail(items), sc_items,
                    Append(new_items,
                           <<sku, IF qty # 0 THEN qty ELSE q,
                             [num |-> line_total, den |-> q]>>))

\* a mutation of _enrich_order_with_sc: the shipping amount is reset as well
EnrichOrderWithScShipping(order, sc_order) ==
    IF sc_order.kind # "dict" THEN [ok |-> FALSE, order |-> order, divzero |-> FALSE]
    ELSE LET with_totals == [order EXCEPT !.tax = sc_order.TotalInfo.Tax,
                                          !.subtotal = sc_order.TotalInfo.GrandTotal,
                                          !.shipping = 0]
             r == EnrichItems(order.items, sc_order.OrderItems, <<>>)
         IN  IF r.ok
             THEN [ok |-> TRUE, order |-> [with_totals EXCEPT !.items = r.items],
                   divzero |-> FALSE]
             ELSE [ok |-> FALSE, order |-> with_totals, divzero |-> r.divzero]

\* _enrich_order_with_sc: the order dict is mutated in place, tax and subtotal
\* before the items are looked at; a non-dict body raises at the first .get
EnrichOrderWithSc(order, sc_order) ==
    IF sc_order.kind # "dict" THEN [ok |-> FALSE, order |-> order, divzero |-> FALSE]
    ELSE LET with_totals == [order EXCEPT !.tax = sc_order.TotalInfo.Tax,
                                          !.subtotal = sc_order.TotalInfo.GrandTotal]
             r == EnrichItems(order.items, sc_order.OrderItems, <<>>)
         IN  IF r.ok
             THEN [ok |-> TRUE, order |-> [with_totals EXCEPT !.items = r.items],
                   divzero |-> FALSE]
             ELSE [ok |-> FALSE, order |-> with_totals, divzero |-> r.divzero]

\* the notifiers _build_notifier can return: None, or an object whose send
\* accepts the first, second or third call form, or raises
Notifiers == {"none", "html_kw", "positional", "raises"}

\* a mutation of _notify: no outer try/except around the send calls
NotifyUnguarded(notifier) ==
    [ sent |-> notifier \in {"html_kw", "body_kw", "positional"},
      raised |-> notifier \in {"raises", "typeerror_all"} ]

\* _notify: best effort, every exception of send is swallowed
Notify(notifier) ==
    [ sent |-> notifier \in {"html_kw", "body_kw", "positional"},
      raised |-> FALSE ]

\* one pass of the per-order try block of get_sellercloud_data and of its
\* except clause: whether the order is kept, the order dict as mutated, the
\* _notify calls made <<kind, PO, delivered>>, and whether an exception
\* leaves get_sellercloud_data
ReconcileOne(order, outcome, nf) ==
    LET po == order.purchase_order_number
        fetch == FetchScOrder(ApiSignature, order.sellercloud_order_id, outcome)
        n == Notify(nf)
        falsy == fetch.kind = "none" \/ fetch.body.kind = "falsy"
        enr == EnrichOrderWithSc(order, fetch.body)
        try == IF fetch.kind = "raise"
               THEN [exc |-> TRUE, kept |-> FALSE, order |-> order,
                     notices |-> <<>>, divzero |-> FALSE]
               ELSE IF falsy
               THEN [exc |-> n.raised, kept |-> FALSE, order |-> order,
                     notices |-> << <<"fetch_failed", po, n.sent>> >>, divzero |-> FALSE]
               ELSE IF ~enr.ok
               THEN [exc |-> n.raised, kept |-> FALSE, order |-> enr.order,
                     notices |-> << <<"item_mismatch", po, n.sent>> >>,
                     divzero |-> enr.divzero]
               ELSE [exc |-> FALSE, kept |-> TRUE, order |-> enr.order,
                     notices |-> <<>>, divzero |-> FALSE]
    IN  [ kept |-> try.kept,
          order |-> try.order,
          notices |-> try.notices \o
                      (IF try.exc THEN << <<"unexpected", po, n.sent>> >> ELSE <<>>),
          propagates |-> try.exc /\ n.raised,
          divzero |-> try.divzero ]

\* ---------------------------------------------------- accounting system
\* invoice._normalize_date: 'YYYY/MM/DD', 'YYYY-MM-DD' or '%m/%d/%Y' become
\* 'YYYY-MM-DD'; anything else is returned as it is
NormalizeDateIso(d) ==
    IF d.fmt \in {"Y/m/d", "Y-m-d", "m/d/Y"} THEN [d EXCEPT !.fmt = "Y-m-d"] ELSE d

\* invoice._safe_amount of an order total: float(v), 0.0 for the placeholder ""
SafeAmount(v) == IF v = NoAmount THEN 0 ELSE v

\* the caller's partner-to-customer configuration, by dropshipper_name;
\* customer_id 0 stands for a missing entry or a missing customer_id
VendorMapping(ds_name) ==
    IF ds_name = "DropA"
    THEN [customer_id |-> 7, email |-> "a@example.com", ship_method |-> "UPS Ground"]
    ELSE [customer_id |-> 0, email |-> "", ship_method |-> ""]

NoRefs == [item |-> "", tax |-> "", shipping |-> "", class |-> "", term |-> ""]

\* QbInvoice._sales_line
SalesLine(tup, date_iso) ==
    LET unit_cost == IF Len(tup) > 2 THEN tup[3] ELSE ZeroCost
    IN  [ Description |-> tup[1],
          Amount |-> [num |-> unit_cost.num * tup[2], den |-> unit_cost.den],
          Qty |-> tup[2],
          UnitPrice |-> unit_cost,
          ServiceDate |-> date_iso ]

\* the item loop of create_invoice raises: tup[1] of a one-element tuple
LinesRaise(order) == \E k \in 1..Len(order.items) : Len(order.items[k]) < 2

\* QbInvoice._single_qty_line
SingleQtyLine(desc, amount, date_iso) ==
    [ Description |-> desc,
      Amount |-> [num |-> SafeAmount(amount), den |-> 1],
      Qty |-> 1,
      UnitPrice |-> [num |-> SafeAmount(amount), den |-> 1],
      ServiceDate |-> date_iso ]

\* a mutation of the line construction: the Taxes line is left out
InvoiceLinesNoTaxes(order, date_iso) ==
    [k \in 1..Len(order.items) |-> SalesLine(order.items[k], date_iso)]
    \o << SingleQtyLine("Shipping", order.shipping, date_iso) >>

\* the lines of create_invoice: one per item, then Taxes, then Shipping
InvoiceLines(order, date_iso) ==
    [k \in 1..Len(order.items) |-> SalesLine(order.items[k], date_iso)]
    \o << SingleQtyLine("Taxes", order.tax, date_iso),
          SingleQtyLine("Shipping", order.shipping, date_iso) >>

NoInvoice ==
    [ DocNumber |-> <<>>, CustomerRef |-> 0, SalesTermRef |-> "", TrackingNum |-> "",
      ShipDate |-> EmptyDate, TxnDate |-> EmptyDate, Line |-> <<>>, BillEmail |-> "",
      ShipMethodRef |-> "", ShipAddr |-> <<>> ]

\* the steps of create_invoice that call the accounting system, in order
QbSteps == <<"item", "tax", "shipping", "class", "term", "customer", "save">>

StepIndex(step) == CHOOSE k \in 1..Len(QbSteps) : QbSteps[k] = step

\* the reference QuickBooks answers a lookup with
RefOf(step) ==
    CASE step = "item" -> "Item:2"
      [] step = "tax" -> "Item:24"
      [] step = "shipping" -> "Item:23"
      [] step = "class" -> "Class:1300000000000892596"
      [] step = "term" -> "Term:4"

\* `if not self._item_ref` of the lazy getters, `if ref` of
\* _get_customer_ref: the cache holds a reference
CachedNever(ref) == FALSE

Cached(ref) == ref # ""

\* `if not customer_id` of create_invoice
CustomerIdNeverMissing(customer_id) == FALSE

CustomerIdMissing(customer_id) == customer_id = 0

\* QbInvoice.create_invoice. `fail` names the accounting-system call that
\* raises in this invocation ("none": none does); a reference that is cached
\* is not looked up and so cannot raise. Returns the invoice or False, the
\* caches as they are left, and whether Invoice.save created the invoice.
CreateInvoice(order, refs, customers, fail) ==
    LET date_iso == NormalizeDateIso(order.ship_date)
        vm == VendorMapping(order.dropshipper_name)
        \* the first of the five lazy getters that raises, 6 when none does
        raises(step) == fail = step /\ ~Cached(refs[step])
        first_bad == IF \E k \in 1..5 : raises(QbSteps[k])
                     THEN CHOOSE k \in 1..5 :
                            /\ raises(QbSteps[k])
                            /\ \A j \in 1..(k - 1) : ~raises(QbSteps[j])
                     ELSE 6
        refs1 == [c \in DOMAIN refs |->
                    IF Cached(refs[c]) THEN refs[c]
                    ELSE IF StepIndex(c) < first_bad THEN RefOf(c) ELSE ""]
        customer_id == vm.customer_id
        cust_cached == Cached(IF customer_id \in customers THEN "Customer" ELSE "")
        cust_raises == fail = "customer" /\ ~cust_cached
        \* the calls sent to the accounting system, in order, and whether
        \* each answered
        call(step, id, ok) == [step |-> step, id |-> id, ok |-> ok]
        ref_calls == SelectSeq([k \in 1..5 |-> call(QbSteps[k], 0, k < first_bad)],
                               LAMBDA c : /\ ~Cached(refs[c.step])
                                          /\ StepIndex(c.step) <= first_bad)
        cust_calls == IF cust_cached THEN <<>>
                      ELSE << call("customer", customer_id, ~cust_raises) >>
        invoice == [ DocNumber |-> order.order_id,
                     CustomerRef |-> customer_id,
                     SalesTermRef |-> refs1.term,
                     TrackingNum |-> order.tracking_number,
                     ShipDate |-> date_iso,
                     TxnDate |-> date_iso,
                     Line |-> IF LinesRaise(order) THEN <<>>
                              ELSE InvoiceLines(order, date_iso),
                     BillEmail |-> vm.email,
                     ShipMethodRef |-> vm.ship_method,
                     ShipAddr |-> << order.city, order.state, order.country,
                                     order.postal_code, order.address >> ]
    IN  IF first_bad <= 5
        THEN [ok |-> FALSE, invoice |-> NoInvoice, refs |-> refs1,
              customers |-> customers, saved |-> FALSE, save_calls |-> 0,
              calls |-> ref_calls]
        ELSE IF LinesRaise(order) \/ CustomerIdMissing(customer_id)
        THEN [ok |-> FALSE, invoice |-> NoInvoice, refs |-> refs1,
              customers |-> customers, saved |-> FALSE, save_calls |-> 0,
              calls |-> ref_calls]
        ELSE IF cust_raises
        THEN [ok |-> FALSE, invoice |-> NoInvoice, refs |-> refs1,
              customers |-> customers, saved |-> FALSE, save_calls |-> 0,
              calls |-> ref_calls \o cust_calls]
        ELSE IF fail = "save"
        THEN [ok |-> FALSE, invoice |-> NoInvoice, refs |-> refs1,
              customers |-> customers \cup {customer_id}, saved |-> FALSE,
              save_calls |-> 1,
              calls |-> ref_calls \o cust_calls \o << call("save", customer_id, FALSE) >>]
        ELSE [ok |-> TRUE, invoice |-> invoice, refs |-> refs1,
              customers |-> customers \cup {customer_id}, saved |-> TRUE,
              save_calls |-> 1,
              calls |-> ref_calls \o cust_calls \o << call("save", customer_id, TRUE) >>]

NotFound == [found |-> FALSE, invoice |-> NoInvoice]

\* a mutation of check_exist: the filter does not restrict the DocNumber
CheckExistAnyDoc(invoices, invoice_number, query) ==
    IF query = "error" \/ invoices = <<>> THEN NotFound
    ELSE [found |-> TRUE, invoice |-> invoices[1]]

\* QbInvoice.check_exist: the first invoice of that DocNumber, False when
\* there is none and False when Invoice.filter raises
CheckExist(invoices, invoice_number, query) ==
    LET hits == {k \in 1..Len(invoices) : invoices[k].DocNumber = invoice_number}
    IN  IF query = "error" THEN NotFound
        ELSE IF hits = {} THEN NotFound
        ELSE [found |-> TRUE,
              invoice |-> invoices[CHOOSE k \in hits : \A j \in hits : k <= j]]

\* ------------------------------------------------------------------ state
VARIABLES
    pc,               \* position of main(): start, sc_init, sc_loop, unpack,
                      \* qb_setup, loop, bucket, order, upload, report,
                      \* raised, returned, done
    run,              \* number of the current run of main()
    db_rows,          \* the eligible rows of the source database
    notifier,         \* what _build_notifier yields in this environment
    ready,            \* the dict ready_to_invoice_orders (insertion ordered)
    ds_keys,          \* list(ready_to_invoice_orders.keys()) snapshot
    ds_idx,           \* index of the bucket being reconciled
    ord_idx,          \* index of the order being reconciled
    kept_orders,      \* kept_orders of the bucket being reconciled
    notify_calls,     \* the _notify calls of this run: <<kind, PO, delivered>>
    sc_last,          \* the OMS answer to the order reconciled last
    zero_div,         \* a division line_total / 0 was evaluated
    prev_ok,          \* order_ids the previous run reconciled and did not
                      \* list under unable_to_invoice
    main_orders,      \* main's variable orders_ready_to_invoice
    sc_errors,        \* main's variable sc_errors
    unable_to_invoice,
    already_invoiced,
    file_paths,
    log_entries,      \* the run-status log: <<run, status, error_code>>
    log_pending,      \* the rows INSERTed on the logger's connection that no
                      \* commit has made durable yet
    qb_invoices,      \* the invoices the accounting system holds
    qb_refs,          \* QbInvoice's lazy caches _item_ref .. _term_ref
    qb_customers,     \* QbInvoice._customer_cache (the cached customer ids)
    qb_log,           \* the calls create_invoice sent to the accounting
                      \* system and what it returned, call after call
    b_pc,             \* invoice builder: idle, ready, checked
    b_order,          \* the order the builder is working on
    b_found,          \* what check_exist returned for it
    b_calls,          \* number of builder invocations so far
    norm_pc,          \* normalisation harness: idle, input, once, twice
    norm_code,
    norm_po,
    norm_id,          \* _ensure_order_id(code, po)
    norm_id2,         \* _ensure_order_id(code, norm_id)
    df_pc,            \* renderer harness: idle, ready, populated, exported
    df_fmt,           \* DfCreator.file_format_name
    df_rows,          \* DfCreator._rows
    df_prev,          \* _rows before the last populate_df call
    df_order,         \* the order of the last populate_df call
    df_ok,            \* what the last populate_df call returned
    df_out,           \* what the last export of the rows produced
    reports,          \* the send_error_report calls of this run
    uploads,          \* the path lists given to upload_files in this run
    h_pc,             \* OMS client harness: idle, secrets, token, ready, returned,
                      \* raised
    h_max,            \* the max_retries the client was built with
    h_tokens,         \* POST /token requests sent
    h_gets,           \* GET /Orders/{id} requests sent for the order
    h_retried,        \* the answers after which the GET was sent again
    h_result          \* what get_order gave: the last answer, or NoAnswer

envVars == << run, db_rows, notifier, prev_ok >>
scVars == << ready, ds_keys, ds_idx, ord_idx, kept_orders, notify_calls, sc_last,
             zero_div >>
callerVars == << main_orders, sc_errors, unable_to_invoice, already_invoiced,
                 file_paths >>
mainVars == << pc, log_entries, log_pending, envVars, scVars, callerVars >>
qbVars == << qb_invoices, qb_refs, qb_customers, qb_log, b_pc, b_order, b_found,
            b_calls >>
normVars == << norm_pc, norm_code, norm_po, norm_id, norm_id2 >>
dfVars == << df_pc, df_fmt, df_rows, df_prev, df_order, df_ok, df_out >>
sinkVars == << reports, uploads >>
httpVars == << h_pc, h_max, h_tokens, h_gets, h_retried, h_result >>
vars == << mainVars, qbVars, normVars, dfVars, sinkVars, httpVars >>

Unbound == [kind |-> "unbound", key |-> <<>>]

NoFetch ==
    [ po |-> <<>>,
      outcome |-> [kind |-> "nothing", status |-> 0, parses |-> FALSE, body |-> NoBody] ]

QbFresh ==
    /\ qb_invoices = <<>> /\ qb_refs = NoRefs /\ qb_customers = {}
    /\ qb_log = <<>>
    /\ b_pc = "idle" /\ b_order = <<>> /\ b_found = NotFound /\ b_calls = 0

NormIdle ==
    /\ norm_pc = "idle" /\ norm_code = <<>> /\ norm_po = <<>>
    /\ norm_id = <<>> /\ norm_id2 = <<>>

\* no DfCreator built, nothing exported
NoExport == [empty |-> TRUE, csv |-> <<>>, path |-> "", written |-> <<>>]

DfIdle ==
    /\ df_pc = "idle" /\ df_fmt = "" /\ df_rows = <<>> /\ df_prev = <<>>
    /\ df_order = <<>> /\ df_ok = "none" /\ df_out = NoExport

\* nothing sent, nothing uploaded
SinkIdle == reports = <<>> /\ uploads = <<>>

NoAnswer == [kind |-> "none", status |-> 0, retry_after |-> FALSE]

\* no OMS client built
HttpIdle ==
    /\ h_pc = "idle" /\ h_max = 0 /\ h_tokens = 0 /\ h_gets = 0
    /\ h_retried = {} /\ h_result = NoAnswer

\* the locals of one run of main() before its first statement
RunFresh ==
    /\ ready = <<>> /\ ds_keys = <<>> /\ ds_idx = 0 /\ ord_idx = 0
    /\ kept_orders = <<>> /\ notify_calls = <<>> /\ sc_last = NoFetch
    /\ main_orders = Unbound /\ sc_errors = Unbound
    /\ unable_to_invoice = <<>> /\ already_invoiced = <<>> /\ file_paths = <<>>

MainIdle ==
    /\ pc = "idle" /\ run = 0 /\ db_rows = <<>> /\ notifier = "none"
    /\ prev_ok = {} /\ zero_div = FALSE /\ log_entries = <<>> /\ log_pending = <<>>
    /\ RunFresh

\* ------------------------------------------------------------------ main()
Init ==
    /\ pc = "start" /\ run = 1
    /\ db_rows \in RowSets
    /\ notifier \in Notifiers
    /\ prev_ok = {} /\ zero_div = FALSE /\ log_entries = <<>> /\ log_pending = <<>>
    /\ RunFresh
    /\ QbFresh
    /\ NormIdle
    /\ DfIdle
    /\ SinkIdle
    /\ HttpIdle

\* the statuses log_process accepts
AllowedStatuses == {"success", "failed", "info"}

\* what the log store does with one INSERT and its commit: both answer; the
\* INSERT raises; the commit raises and the store leaves the transaction
\* open on the connection; the commit raises and the store ends the
\* transaction, dropping what was pending
StoreOutcomes == {"written", "insert_raises", "commit_raises", "commit_rolls_back"}

\* ProcessLogger.log_process on a logger whose connection holds the rows
\* `pending`: a status outside the allowed ones raises ValueError before
\* anything is sent; else one INSERT and one commit, with no rollback when
\* either raises. The commit makes the pending rows and the new one durable;
\* when it raises on a store that leaves the transaction open the new row
\* stays pending with the others, and the commit of a later call writes them
\* all. "" stands for the error_code None
LogProcess(entries, pending, n, status, error_code, store) ==
    IF status \notin AllowedStatuses \/ store = "insert_raises"
    THEN [raised |-> TRUE, entries |-> entries, pending |-> pending]
    ELSE IF store = "written"
    THEN [raised |-> FALSE,
          entries |-> entries \o Append(pending, <<n, status, error_code>>),
          pending |-> <<>>]
    ELSE IF store = "commit_raises"
    THEN [raised |-> TRUE, entries |-> entries,
          pending |-> Append(pending, <<n, status, error_code>>)]
    ELSE [raised |-> TRUE, entries |-> entries, pending |-> <<>>]

\* the convenience wrappers: log_process(status, msg or None)
LogSuccess(entries, pending, n, msg, store) ==
    LogProcess(entries, pending, n, "success", msg, store)

LogError(entries, pending, n, msg, store) ==
    LogProcess(entries, pending, n, "failed", msg, store)

LogInfo(entries, pending, n, msg, store) ==
    LogProcess(entries, pending, n, "info", msg, store)

\* main's except clause: logger.log_error(str(e)), then re-raise; when
\* log_error raises, its exception leaves main instead
MainRaise(err) ==
    /\ pc' = "raised"
    /\ \E store \in StoreOutcomes :
         /\ log_entries' = LogError(log_entries, log_pending, run, err, store).entries
         /\ log_pending' = LogError(log_entries, log_pending, run, err, store).pending

\* main.py 18-24: a collaborator's constructor or query raises
MainSetupFails ==
    /\ pc = "start"
    /\ MainRaise("SetupError")
    /\ UNCHANGED << envVars, scVars, callerVars, qbVars, normVars, dfVars, sinkVars, httpVars >>

\* main.py 23-27: the orders are assembled; with none, main returns at once
MainFetchOrders ==
    /\ pc = "start"
    /\ ready' = GetInvoiceReadyOrders(db_rows)
    /\ main_orders' = [kind |-> "dict", key |-> <<>>]
    /\ pc' = IF ready' = <<>> THEN "returned" ELSE "sc_init"
    /\ UNCHANGED << log_entries, log_pending, envVars, ds_keys, ds_idx, ord_idx, kept_orders,
                    notify_calls, sc_last, zero_div, sc_errors, unable_to_invoice,
                    already_invoiced, file_paths, qbVars, normVars, dfVars, sinkVars, httpVars >>

\* get_sellercloud_data 194: SellerCloudAPI() raises (secrets, token)
ScInitFails ==
    /\ pc = "sc_init"
    /\ MainRaise("RuntimeError")
    /\ UNCHANGED << envVars, scVars, callerVars, qbVars, normVars, dfVars, sinkVars, httpVars >>

\* get_sellercloud_data 194-198: client and notifier built, keys snapshot
ScInit ==
    /\ pc = "sc_init"
    /\ ds_keys' = [b \in 1..Len(ready) |-> ready[b].key]
    /\ ds_idx' = 1 /\ ord_idx' = 1 /\ kept_orders' = <<>>
    /\ pc' = "sc_loop"
    /\ UNCHANGED << log_entries, log_pending, envVars, ready, notify_calls, sc_last, zero_div,
                    callerVars, qbVars, normVars, dfVars, sinkVars, httpVars >>

CurBucket == KeyIndex(ready, ds_keys[ds_idx])

\* get_sellercloud_data 203-246: one order of the current bucket
ReconcileOrder ==
    /\ pc = "sc_loop"
    /\ ds_idx <= Len(ds_keys)
    /\ ord_idx <= Len(ready[CurBucket].orders)
    /\ \E outcome \in OmsOutcomes :
         LET b == CurBucket
             order == ready[b].orders[ord_idx]
             r == ReconcileOne(order, outcome, notifier)
         IN  /\ ready' = [ready EXCEPT ![b].orders[ord_idx] = r.order]
             /\ notify_calls' = notify_calls \o r.notices
             /\ sc_last' = [po |-> order.purchase_order_number, outcome |-> outcome]
             /\ zero_div' = (zero_div \/ r.divzero)
             /\ IF r.propagates
                THEN /\ MainRaise("NotifierError")
                     /\ UNCHANGED << ord_idx, kept_orders >>
                ELSE /\ kept_orders' = IF r.kept THEN Append(kept_orders, r.order)
                                       ELSE kept_orders
                     /\ ord_idx' = ord_idx + 1
                     /\ UNCHANGED << pc, log_entries, log_pending >>
    /\ UNCHANGED << envVars, ds_keys, ds_idx, callerVars, qbVars, normVars, dfVars, sinkVars, httpVars >>

\* a mutation of the bucket epilogue: an emptied bucket stays in the mapping
BucketEpilogueKeepsEmpty(mapping, b, kept) ==
    [mapping EXCEPT ![b].orders = kept]

\* get_sellercloud_data 248-253: the bucket keeps the kept orders, or is
\* popped from the mapping when none is left
BucketEpilogue(mapping, b, kept) ==
    IF kept # <<>>
    THEN [mapping EXCEPT ![b].orders = kept]
    ELSE SubSeq(mapping, 1, b - 1) \o SubSeq(mapping, b + 1, Len(mapping))

ReconcileBucketEnd ==
    /\ pc = "sc_loop"
    /\ ds_idx <= Len(ds_keys)
    /\ ord_idx > Len(ready[CurBucket].orders)
    /\ ready' = BucketEpilogue(ready, CurBucket, kept_orders)
    /\ ds_idx' = ds_idx + 1 /\ ord_idx' = 1 /\ kept_orders' = <<>>
    /\ UNCHANGED << pc, log_entries, log_pending, envVars, ds_keys, notify_calls, sc_last,
                    zero_div, callerVars, qbVars, normVars, dfVars, sinkVars, httpVars >>

\* get_sellercloud_data 255: the mapping is returned, and nothing else
ReconcileReturn ==
    /\ pc = "sc_loop"
    /\ ds_idx > Len(ds_keys)
    /\ pc' = "unpack"
    /\ UNCHANGED << log_entries, log_pending, envVars, scVars, callerVars, qbVars, normVars, dfVars, sinkVars, httpVars >>

\* main.py 28: `orders_ready_to_invoice, sc_errors = <the returned dict>`
\* iterates the dict's keys: two keys bind the two names to the keys, any
\* other number of keys raises ValueError
MainUnpack ==
    /\ pc = "unpack"
    /\ IF Len(ready) = 2
       THEN /\ main_orders' = [kind |-> "key", key |-> ready[1].key]
            /\ sc_errors' = [kind |-> "key", key |-> ready[2].key]
            /\ pc' = "qb_setup"
            /\ UNCHANGED << log_entries, log_pending >>
       ELSE /\ MainRaise("ValueError")
            /\ UNCHANGED << main_orders, sc_errors >>
    /\ UNCHANGED << envVars, scVars, unable_to_invoice, already_invoiced,
                    file_paths, qbVars, normVars, dfVars, sinkVars, httpVars >>

\* main.py 33-36: the refresh token query or the QuickBooks client raises
MainQbSetupFails ==
    /\ pc = "qb_setup"
    /\ MainRaise("QbSetupError")
    /\ UNCHANGED << envVars, scVars, callerVars, qbVars, normVars, dfVars, sinkVars, httpVars >>

\* main.py 33-40
MainQbSetup ==
    /\ pc = "qb_setup"
    /\ unable_to_invoice' = <<>> /\ already_invoiced' = <<>> /\ file_paths' = <<>>
    /\ pc' = "loop"
    /\ UNCHANGED << log_entries, log_pending, envVars, scVars, main_orders, sc_errors, qbVars,
                    normVars, dfVars, sinkVars, httpVars >>

\* main.py 42: orders_ready_to_invoice.items() on a key tuple raises
\* AttributeError
MainLoopEnter ==
    /\ pc = "loop"
    /\ IF main_orders.kind = "dict"
       THEN pc' = "bucket" /\ UNCHANGED << log_entries, log_pending >>
       ELSE MainRaise("AttributeError")
    /\ UNCHANGED << envVars, scVars, callerVars, qbVars, normVars, dfVars, sinkVars, httpVars >>

RunEnded == pc \in {"raised", "returned", "done"}

\* get_sellercloud_data has returned in this run
ReconcileDone == ds_keys # <<>> /\ ds_idx > Len(ds_keys)

\* the orders of the mapping, bucket after bucket
RECURSIVE OrdersOf(_)
OrdersOf(mapping) ==
    IF mapping = <<>> THEN <<>> ELSE Head(mapping).orders \o OrdersOf(Tail(mapping))

\* the PO numbers listed in one of main's error mappings
ListedPos(listing) == {listing[i][2] : i \in 1..Len(listing)}

\* the job is started again; nothing has marked an order as invoiced, so the
\* query returns the same rows. main.py 14 builds a new ProcessLogger on a
\* connection of its own: what the old one held pending is gone
NextRun ==
    /\ RunEnded
    /\ run < MaxRuns
    /\ run' = run + 1
    /\ pc' = "start"
    /\ prev_ok' = IF ReconcileDone
                  THEN {OrdersOf(ready)[i].order_id :
                          i \in {j \in 1..Len(OrdersOf(ready)) :
                                   OrdersOf(ready)[j].purchase_order_number
                                     \notin ListedPos(unable_to_invoice)}}
                  ELSE {}
    /\ ready' = <<>> /\ ds_keys' = <<>> /\ ds_idx' = 0 /\ ord_idx' = 0
    /\ kept_orders' = <<>> /\ notify_calls' = <<>> /\ sc_last' = NoFetch
    /\ main_orders' = Unbound /\ sc_errors' = Unbound
    /\ unable_to_invoice' = <<>> /\ already_invoiced' = <<>> /\ file_paths' = <<>>
    /\ log_pending' = <<>>
    /\ UNCHANGED << db_rows, notifier, zero_div, log_entries, qbVars, normVars, dfVars,
                    sinkVars, httpVars >>

Next ==
    \/ MainSetupFails
    \/ MainFetchOrders
    \/ ScInitFails
    \/ ScInit
    \/ ReconcileOrder
    \/ ReconcileBucketEnd
    \/ ReconcileReturn
    \/ MainUnpack
    \/ MainQbSetupFails
    \/ MainQbSetup
    \/ MainLoopEnter

\* one run of main()
Spec == Init /\ [][Next]_vars

NextRerun == Next \/ NextRun

\* main() run MaxRuns times over the same database content
SpecRerun == Init /\ [][NextRerun]_vars

\* --------------------------------------------- order-id normalisation harness
InitNorm ==
    /\ MainIdle
    /\ QbFresh
    /\ DfIdle
    /\ SinkIdle
    /\ HttpIdle
    /\ norm_pc = "input"
    /\ norm_code \in StrsUpTo(MaxCodeLen)
    /\ norm_po \in StrsUpTo(MaxPoLen)
    /\ norm_id = <<>> /\ norm_id2 = <<>>

NormApply ==
    /\ norm_pc = "input"
    /\ norm_id' = EnsureOrderId(norm_code, norm_po)
    /\ norm_pc' = "once"
    /\ UNCHANGED << mainVars, qbVars, dfVars, sinkVars, httpVars, norm_code, norm_po, norm_id2 >>

NormReapply ==
    /\ norm_pc = "once"
    /\ norm_id2' = EnsureOrderId(norm_code, norm_id)
    /\ norm_pc' = "twice"
    /\ UNCHANGED << mainVars, qbVars, dfVars, sinkVars, httpVars, norm_code, norm_po, norm_id >>

NextNorm == NormApply \/ NormReapply

SpecNorm == InitNorm /\ [][NextNorm]_vars

\* ----------------------------------------------------------- invoice builder
\* orders handed to the builder: rows 1 and 2 of partner A and row 1 of
\* partner B (no customer configured), enriched from the first OMS record,
\* and row 3 of partner A not enriched
BuilderBody ==
    [ kind |-> "dict", TotalInfo |-> OmsTotalInfo,
      OrderItems |-> << ScItem("S1", "", 1998, 2, 0), ScItem("S2", "", 1000, 1, 0) >> ]

\* row 3 of partner A as the database gives it: items (sku, qty) without a
\* unit cost, tax and subtotal still the placeholder
UnenrichedOrder ==
    [ OrderOfRow(RowAt(3, <<"A">>)) EXCEPT
        !.items = [k \in 1..Len(@) |-> <<@[k][1], @[k][2]>>] ]

BuilderOrders ==
    { EnrichOrderWithSc(OrderOfRow(RowAt(1, <<"A">>)), BuilderBody).order,
      EnrichOrderWithSc(OrderOfRow(RowAt(2, <<"A">>)), BuilderBody).order,
      EnrichOrderWithSc(OrderOfRow(RowAt(1, <<"B">>)), BuilderBody).order,
      UnenrichedOrder }

InitBuilder ==
    /\ MainIdle
    /\ NormIdle
    /\ DfIdle
    /\ SinkIdle
    /\ HttpIdle
    /\ qb_invoices = <<>> /\ qb_refs = NoRefs /\ qb_customers = {}
    /\ qb_log = <<>>
    /\ b_pc = "ready" /\ b_order = <<>> /\ b_found = NotFound /\ b_calls = 0

\* main.py 48: invoice = api.check_exist(order["order_id"]); the query either
\* answers or raises
BuilderCheckExist ==
    /\ b_pc = "ready"
    /\ b_calls < MaxBuilds
    /\ \E order \in BuilderOrders, query \in {"ok", "error"} :
         /\ b_order' = order
         /\ b_found' = CheckExist(qb_invoices, order.order_id, query)
    /\ b_calls' = b_calls + 1
    /\ b_pc' = "checked"
    /\ UNCHANGED << mainVars, normVars, dfVars, sinkVars, httpVars, qb_invoices, qb_refs,
                    qb_customers, qb_log >>

\* main.py 49-53: an existing invoice classifies the order already_invoiced;
\* the bucket key of the listing is written as the partner code of the order
BuilderAlreadyInvoiced ==
    /\ b_pc = "checked"
    /\ b_found.found
    /\ already_invoiced' =
         Append(already_invoiced, <<b_order.code, b_order.purchase_order_number>>)
    /\ b_pc' = "ready"
    /\ UNCHANGED << pc, log_entries, log_pending, envVars, scVars, main_orders, sc_errors,
                    unable_to_invoice, file_paths, normVars, dfVars, sinkVars, httpVars,
                    qb_invoices, qb_refs, qb_customers, qb_log, b_order, b_found,
                    b_calls >>

\* what qb_log keeps of the n-th create_invoice call: the calls it sent to
\* the accounting system, then what it returned (truthy or False)
CallLog(n, order, r) ==
    [k \in 1..Len(r.calls) |->
        [n |-> n, ds |-> order.dropshipper_name, order_id |-> order.order_id,
         step |-> r.calls[k].step, id |-> r.calls[k].id, ok |-> r.calls[k].ok]]
    \o << [n |-> n, ds |-> order.dropshipper_name, order_id |-> order.order_id,
           step |-> "return", id |-> 0, ok |-> r.ok] >>

\* the builder's create step: create_invoice when check_exist reported
\* not found; a falsy result classifies the order unable_to_invoice
BuilderCreateInvoice ==
    /\ b_pc = "checked"
    /\ ~b_found.found
    /\ \E fail \in {"none"} \cup {QbSteps[k] : k \in 1..Len(QbSteps)} :
         LET r == CreateInvoice(b_order, qb_refs, qb_customers, fail)
         IN  /\ qb_refs' = r.refs
             /\ qb_customers' = r.customers
             /\ qb_invoices' = IF r.saved THEN Append(qb_invoices, r.invoice)
                               ELSE qb_invoices
             /\ qb_log' = qb_log \o CallLog(b_calls, b_order, r)
             /\ unable_to_invoice' =
                  IF r.ok THEN unable_to_invoice
                  ELSE Append(unable_to_invoice,
                              <<b_order.code, b_order.purchase_order_number>>)
    /\ b_pc' = "ready"
    /\ UNCHANGED << pc, log_entries, log_pending, envVars, scVars, main_orders, sc_errors,
                    already_invoiced, file_paths, normVars, dfVars, sinkVars, httpVars,
                    b_order, b_found, b_calls >>

NextBuilder ==
    \/ BuilderCheckExist
    \/ BuilderAlreadyInvoiced
    \/ BuilderCreateInvoice

\* the invoice builder run over and over on one accounting system
SpecBuilder == InitBuilder /\ [][NextBuilder]_vars

\* ------------------------------------------------- observations of a run
SeqRange(s) == {s[k] : k \in 1..Len(s)}

PosOf(orders) == [k \in 1..Len(orders) |-> orders[k].purchase_order_number]

\* the mapping as get_invoice_ready_orders assembled it in this run
Assembled == GetInvoiceReadyOrders(db_rows)

AssembledOrder(po) ==
    CHOOSE o \in SeqRange(OrdersOf(Assembled)) : o.purchase_order_number = po

\* keys of the buckets whose epilogue has run
FinishedKeys == {ds_keys[i] : i \in 1..Min(ds_idx - 1, Len(ds_keys))}

\* the orders reconciliation has kept so far: those appended to kept_orders
\* and those of the finished buckets still in the mapping
SurvivingOrders ==
    SeqRange(kept_orders) \cup
    UNION {SeqRange(ready[b].orders) :
             b \in {x \in 1..Len(ready) : ready[x].key \in FinishedKeys}}

SurvivingPos == {o.purchase_order_number : o \in SurvivingOrders}

\* the PO numbers _notify was called for with a subject of that kind
NoticedPos(kind) ==
    {notify_calls[k][2] : k \in {x \in 1..Len(notify_calls) : notify_calls[x][1] = kind}}

DroppedPos ==
    NoticedPos("fetch_failed") \cup NoticedPos("item_mismatch") \cup NoticedPos("unexpected")

\* the order reconciled last, as it was assembled
LastOrder == AssembledOrder(sc_last.po)

\* the request for the order reconciled last reached the OMS and was answered
LastAnswered ==
    /\ sc_last # NoFetch
    /\ LastOrder.sellercloud_order_id # 0
    /\ sc_last.outcome.kind = "response"

\* the answer was a 200 with a JSON object, so _enrich_order_with_sc ran on it
LastEnriched ==
    /\ LastAnswered
    /\ sc_last.outcome.status = 200
    /\ sc_last.outcome.parses
    /\ sc_last.outcome.body.kind = "dict"

\* the SKUs the OMS answer has an item for
ScSkus(sc_items) == {ScItemKey(sc_items[k]) : k \in 1..Len(sc_items)}

\* local quantity, else the OMS quantity when the local one is zero
ResolvedQty(item, sc_items) ==
    IF item[2] # 0 THEN item[2] ELSE IdToTotalsGet(sc_items, item[1])[2]

LastHasBadQty ==
    \E k \in 1..Len(LastOrder.items) :
        ResolvedQty(LastOrder.items[k], sc_last.outcome.body.OrderItems) <= 0

LastHasMissingSku ==
    \E k \in 1..Len(LastOrder.items) :
        LastOrder.items[k][1] \notin ScSkus(sc_last.outcome.body.OrderItems)

\* ----------------------------------------------------------------- claims
\* C1: at most one invoice per order_id. Whatever the accounting-system calls
\* do, check_exist failing and answering not found included, the accounting
\* system never holds two invoices whose DocNumber is the same order_id when
\* the builder is check_exist followed by create_invoice on not found.
C1_AtMostOneInvoicePerOrderId ==
    \A o \in BuilderOrders :
        Cardinality({k \in 1..Len(qb_invoices) : qb_invoices[k].DocNumber = o.order_id}) <= 1

\* C2: run twice over the same eligible orders, the second run lists under
\* already_invoiced every order the first run took through without listing it
\* under unable_to_invoice, and an invoice of that order_id exists.
C2_SecondRunAlreadyInvoiced ==
    (run = 2 /\ RunEnded) =>
        \A o \in SeqRange(OrdersOf(Assembled)) :
            o.order_id \in prev_ok =>
                /\ \E k \in 1..Len(qb_invoices) : qb_invoices[k].DocNumber = o.order_id
                /\ <<o.code, o.purchase_order_number>> \in SeqRange(already_invoiced)

\* C3: reconciliation never divides by zero. No unit cost is computed with a
\* zero divisor, and an order with an item whose resolved quantity is <= 0 is
\* dropped as an item mismatch, without an exception reaching the except
\* clause of the loop.
C3_NeverDividesByZero ==
    /\ ~zero_div
    /\ (LastEnriched /\ LastHasBadQty) =>
          /\ sc_last.po \notin SurvivingPos
          /\ sc_last.po \in NoticedPos("item_mismatch")
          /\ sc_last.po \notin NoticedPos("unexpected")

C3_Witness ==
    /\ LastEnriched /\ LastHasBadQty
    /\ \E k \in 1..Len(LastOrder.items) :
          ResolvedQty(LastOrder.items[k], sc_last.outcome.body.OrderItems) = 0
    /\ sc_last.po \in NoticedPos("item_mismatch")
    /\ ReconcileDone

\* C4: an order with a local item whose SKU the OMS answer has no item for
\* is dropped as an item mismatch, whatever the local quantity of that item.
C4_MissingSkuDropped ==
    (LastEnriched /\ LastHasMissingSku) =>
        /\ sc_last.po \notin SurvivingPos
        /\ sc_last.po \in NoticedPos("item_mismatch")

\* C5: empty bucket elimination. Every bucket left in the mapping after its
\* epilogue holds at least one order, a bucket is absent exactly when all its
\* orders were dropped, and every file path main holds belongs to a bucket of
\* the mapping.
C5_EmptyBucketElimination ==
    /\ \A b \in 1..Len(ready) :
          ready[b].key \in FinishedKeys => ready[b].orders # <<>>
    /\ \A key \in FinishedKeys :
          (KeyIndex(ready, key) = 0) <=>
             (SeqRange(PosOf(Assembled[KeyIndex(Assembled, key)].orders)) \subseteq DroppedPos)
    /\ \A k \in 1..Len(file_paths) : KeyIndex(ready, file_paths[k][1]) # 0

C5_Witness ==
    /\ ReconcileDone
    /\ pc = "unpack"
    /\ Len(ds_keys) = 2
    /\ Len(ready) = 1
    /\ ready[1].key = ds_keys[2]

\* C6: per-order failures are isolated. No exception leaves
\* get_sellercloud_data whatever the notifier does, an order whose fetch or
\* enrichment raised is dropped, and when the loop is over every assembled
\* order has been either dropped with a notice or kept with its OMS totals.
C6_FailureIsolation ==
    /\ \A k \in 1..Len(log_entries) : log_entries[k][3] # "NotifierError"
    /\ NoticedPos("unexpected") \cap SurvivingPos = {}
    /\ ReconcileDone =>
          /\ SeqRange(PosOf(OrdersOf(Assembled))) = SurvivingPos \cup DroppedPos
          /\ \A o \in SurvivingOrders : o.tax # NoAmount /\ o.subtotal # NoAmount

C6_Witness ==
    /\ ReconcileDone
    /\ notifier = "raises"
    /\ \E i \in 1..Len(db_rows), j \in 1..Len(db_rows) :
          /\ i < j
          /\ db_rows[i].code = db_rows[j].code
          /\ db_rows[i].purchase_order_number \in NoticedPos("unexpected")
          /\ db_rows[j].purchase_order_number \in SurvivingPos
    /\ \E i \in 1..Len(db_rows), j \in 1..Len(db_rows) :
          /\ i < j
          /\ db_rows[i].code # db_rows[j].code
          /\ db_rows[i].purchase_order_number \in NoticedPos("unexpected")
          /\ db_rows[j].purchase_order_number \in SurvivingPos

\* the ErrorRegistry category of a notice
CategoryOf(kind) ==
    CASE kind = "fetch_failed" -> "not_found_in_sc"
      [] kind = "item_mismatch" -> "item_mismatch"
      [] OTHER -> "unexpected_error"

\* the value main binds to sc_errors lists po under category and code; a
\* dict key or an unbound name lists nothing
RegistryLists(reg, category, code, po) ==
    /\ reg.kind = "registry"
    /\ po \in SeqRange(reg.lists[category][code])

\* C7: when reconciliation has returned to main, every order it dropped is
\* listed in the registry main received, under the category of its cause and
\* under its partner code.
C7_DroppedOrdersInRegistry ==
    (ReconcileDone /\ pc # "sc_loop") =>
        \A k \in 1..Len(notify_calls) :
            RegistryLists(sc_errors, CategoryOf(notify_calls[k][1]),
                          AssembledOrder(notify_calls[k][2]).code, notify_calls[k][2])

\* the POs of the bucket of that key as assembled, and as left in the mapping
AssembledPos(key) == PosOf(Assembled[KeyIndex(Assembled, key)].orders)

LeftPos(key) ==
    IF KeyIndex(ready, key) = 0 THEN <<>> ELSE PosOf(ready[KeyIndex(ready, key)].orders)

NotDropped(po) == po \notin DroppedPos

\* C8: an order whose fetch is answered with a status other than 200 is
\* removed from its bucket with a fetch-failed notice; a finished bucket
\* holds its assembled orders less the dropped ones, in their assembled
\* order; and nothing of the rest of the run is done for a dropped order: no
\* invoice, no already_invoiced or unable_to_invoice entry.
C8_Non200OrderRemoved ==
    /\ (LastAnswered /\ sc_last.outcome.status # 200) =>
          /\ sc_last.po \in NoticedPos("fetch_failed")
          /\ sc_last.po \notin NoticedPos("item_mismatch") \cup NoticedPos("unexpected")
    /\ NoticedPos("fetch_failed") \cap SurvivingPos = {}
    /\ \A key \in FinishedKeys : LeftPos(key) = SelectSeq(AssembledPos(key), NotDropped)
    /\ \A po \in NoticedPos("fetch_failed") :
          /\ \A k \in 1..Len(qb_invoices) :
                qb_invoices[k].DocNumber # AssembledOrder(po).order_id
          /\ <<AssembledOrder(po).code, po>>
                \notin SeqRange(already_invoiced) \cup SeqRange(unable_to_invoice)

C8_Witness ==
    /\ LastAnswered /\ sc_last.outcome.status = 404
    /\ ReconcileDone
    /\ \E key \in FinishedKeys :
          /\ Len(AssembledPos(key)) = 3
          /\ AssembledPos(key)[3] = sc_last.po
          /\ LeftPos(key) = << AssembledPos(key)[1], AssembledPos(key)[2] >>

\* p starts with c
StartsWith(p, c) ==
    /\ Len(c) <= Len(p)
    /\ \A k \in 1..Len(c) : p[k] = c[k]

\* C9: order-id normalisation is idempotent and never double-prefixes: the
\* result is p when p starts with c and c followed by p otherwise, and
\* normalising the result again leaves it as it is.
C9_NormalizeIdempotent ==
    /\ norm_pc \in {"once", "twice"} =>
          norm_id = IF StartsWith(norm_po, norm_code) THEN norm_po
                    ELSE norm_code \o norm_po
    /\ norm_pc = "twice" => norm_id2 = norm_id

C9_Witness ==
    /\ norm_pc = "twice"
    /\ Len(norm_code) = MaxCodeLen
    /\ norm_po # <<>>
    /\ ~StartsWith(norm_po, norm_code)
    /\ norm_id = norm_code \o norm_po
    /\ norm_id2 = norm_id

\* the surviving order of that PO
SurvivingOrder(po) == CHOOSE o \in SurvivingOrders : o.purchase_order_number = po

\* C10: an order that survives reconciliation carries the OMS Tax and
\* GrandTotal, and each of its items is, in its position, (sku, q, cost) with
\* q the resolved quantity and cost * q the LineTotal of the OMS item of
\* that SKU.
C10_SurvivorCarriesOmsAmounts ==
    (LastEnriched /\ sc_last.po \in SurvivingPos) =>
        LET o == SurvivingOrder(sc_last.po)
            body == sc_last.outcome.body
        IN  /\ o.tax = body.TotalInfo.Tax
            /\ o.subtotal = body.TotalInfo.GrandTotal
            /\ Len(o.items) = Len(LastOrder.items)
            /\ \A k \in 1..Len(o.items) :
                  LET sku == LastOrder.items[k][1]
                      q == ResolvedQty(LastOrder.items[k], body.OrderItems)
                  IN  /\ o.items[k][1] = sku
                      /\ o.items[k][2] = q
                      /\ sku \in ScSkus(body.OrderItems)
                      /\ o.items[k][3].num * q =
                            IdToTotalsGet(body.OrderItems, sku)[1] * o.items[k][3].den

\* ---------------------------------------------------------------- renderer
\* The amounts of the orders handed to the renderer are integers in
\* thousandths (2.005 is 2005); NoAmount is the placeholder "", BadAmount a
\* non-numeric string; a quotient is the record [num, den].

\* a non-empty string that is no number, where an amount is expected
BadAmount == -2

\* an item tuple (sku, qty) carries no unit cost
NoCost == [num |-> 0, den |-> 0]

Max(a, b) == IF a >= b THEN a ELSE b

Abs(a) == IF a >= 0 THEN a ELSE 0 - a

\* `v or 0` of an amount
OrZero(v) == IF v = NoAmount THEN 0 ELSE v

\* the amounts the rendered orders carry as subtotal and as tax
RenderSubtotals == {NoAmount, 100000, 23185}

RenderTaxes == {NoAmount, 10000, 1600, 2005}

\* the (subtotal, tax) pairs of these amounts for which the binary doubles
\* give subtotal - tax below the decimal difference (23.185 - 1.6 is
\* 21.584999999999997, 23.185 - 10.0 is 13.184999999999999); every other
\* pair gives the double whose str() is the decimal difference
FloatDiffBelow == { <<23185, 1600>>, <<23185, 10000>> }

\* (order.get("subtotal") or 0) - (order.get("tax") or 0) in doubles: the
\* decimal difference and the side on which the double lies
FloatDiff(subtotal, tax) ==
    [ mills |-> OrZero(subtotal) - OrZero(tax),
      err |-> IF <<OrZero(subtotal), OrZero(tax)>> \in FloatDiffBelow THEN -1 ELSE 0 ]

\* decimal_rounding.round_to_decimal: Decimal(str(number)) quantized to
\* 0.01 with ROUND_HALF_UP (ties away from zero); the result in thousandths
RoundToDecimal(x) ==
    LET m == Abs(x.mills)
        sign == IF x.mills < 0 THEN -1 ELSE 1
        up == m % 10 > 5 \/ (m % 10 = 5 /\ x.err * sign >= 0)
    IN  sign * 10 * ((m \div 10) + (IF up THEN 1 ELSE 0))

\* DfCreator._safe_round
SafeRound(x) == RoundToDecimal(x)

\* ------------------------------------------------------- binary doubles
\* A natural number too wide for one integer is a sequence of limbs, the
\* lowest first, each below LimbBase, the last one not 0; <<>> is zero.
LimbBase == 2^15

\* the number of bits of a limb
LimbBits == CHOOSE k \in 1..30 : 2^k = LimbBase

\* a without the zero limbs at its top
BigTrim(a) ==
    SubSeq(a, 1, CHOOSE i \in 0..Len(a) :
                     (i = 0 \/ a[i] # 0) /\ \A j \in (i + 1)..Len(a) : a[j] = 0)

RECURSIVE BigOf(_)
BigOf(n) == IF n = 0 THEN <<>> ELSE <<n % LimbBase>> \o BigOf(n \div LimbBase)

RECURSIVE BigInt(_)
BigInt(a) == IF a = <<>> THEN 0 ELSE a[1] + LimbBase * BigInt(Tail(a))

LimbAt(a, i) == IF i <= Len(a) THEN a[i] ELSE 0

\* the number of bits of a
BitLen(a) ==
    IF a = <<>> THEN 0
    ELSE LimbBits * (Len(a) - 1)
         + (CHOOSE k \in 1..LimbBits : 2^(k - 1) <= a[Len(a)] /\ a[Len(a)] < 2^k)

\* the limbs from i on of a + b (sign = 1) or a - b (sign = -1, a >= b),
\* carry being what the limbs below i carried or borrowed
RECURSIVE BigSumFrom(_, _, _, _, _)
BigSumFrom(a, b, sign, i, carry) ==
    IF i > Len(a) /\ i > Len(b) THEN BigOf(carry)
    ELSE <<(LimbAt(a, i) + sign * LimbAt(b, i) + carry) % LimbBase>>
         \o BigSumFrom(a, b, sign, i + 1,
                       (LimbAt(a, i) + sign * LimbAt(b, i) + carry) \div LimbBase)

\* the limbs from i on of a * k for 0 <= k <= LimbBase
RECURSIVE BigMulFrom(_, _, _, _)
BigMulFrom(a, k, i, carry) ==
    IF i > Len(a) THEN BigOf(carry)
    ELSE <<(a[i] * k + carry) % LimbBase>>
         \o BigMulFrom(a, k, i + 1, (a[i] * k + carry) \div LimbBase)

\* the limbs 1..i of a \div n and the remainder, for 0 < n <= LimbBase,
\* rem being what the limbs above i left
RECURSIVE BigDivFrom(_, _, _, _)
BigDivFrom(a, n, i, rem) ==
    IF i = 0 THEN [q |-> <<>>, rem |-> rem]
    ELSE [BigDivFrom(a, n, i - 1, (rem * LimbBase + a[i]) % n)
            EXCEPT !.q = Append(@, (rem * LimbBase + a[i]) \div n)]

\* a + sign * b
BigSum(a, b, sign) == BigTrim(BigSumFrom(a, b, sign, 1, 0))

BigMul(a, k) == BigTrim(BigMulFrom(a, k, 1, 0))

\* a \div n and the remainder
BigDiv(a, n) == [BigDivFrom(a, n, Len(a), 0) EXCEPT !.q = BigTrim(@)]

\* a < b
BigLess(a, b) ==
    \/ Len(a) < Len(b)
    \/ /\ Len(a) = Len(b)
       /\ \E i \in 1..Len(a) : a[i] < b[i] /\ \A j \in (i + 1)..Len(a) : a[j] = b[j]

\* a * 2^s
BigShl(a, s) ==
    IF a = <<>> THEN <<>>
    ELSE BigMul([k \in 1..(s \div LimbBits) |-> 0] \o a, 2^(s % LimbBits))

\* a \div 2^s, and whether a bit that was 1 is dropped or `lost` already
BigShr(a, s, lost) ==
    [BigDiv(SubSeq(a, s \div LimbBits + 1, Len(a)), 2^(s % LimbBits))
        EXCEPT !.rem = \/ lost
                       \/ @ # 0
                       \/ \E i \in 1..Len(a) : i <= s \div LimbBits /\ a[i] # 0]

\* twice h.q plus h.rem (0 or 1) is a number with its last bit; with more
\* below it when sticky, h.q or h.q + 1 is the nearest to half of it, a tie
\* going to the even one
HalfEven(h, sticky) ==
    IF h.rem = 1 /\ (sticky \/ LimbAt(h.q, 1) % 2 = 1) THEN BigSum(h.q, <<1>>, 1)
    ELSE h.q

\* d.q is a number with one more bit than wanted, d.rem whether more was
\* below it
HalfOf(d) == HalfEven(BigDiv(d.q, 2), d.rem)

\* a / 2^s (plus less than one unit of a when sticky) to the nearest whole
\* number, a tie going to the even one
BigShrRound(a, s, sticky) ==
    IF s <= 0 THEN BigShl(a, 0 - s) ELSE HalfOf(BigShr(a, s - 1, sticky))

\* A double is [sign, m, e] with the value sign * m * 2^e, m of 53 bits
\* (2^53 itself when rounding carried), or <<>> for zero.
DoubleZero == [sign |-> 1, m |-> <<>>, e |-> 0]

\* sign * a * 2^e with a brought to 53 bits by the shift of s bits
DoubleShifted(sign, a, e, sticky, s) ==
    [sign |-> sign, m |-> BigShrRound(a, s, sticky), e |-> e + s]

\* the double nearest to sign * a * 2^e (plus less than one unit of a when
\* sticky), a tie going to the even significand
RoundDouble(sign, a, e, sticky) ==
    IF a = <<>> THEN DoubleZero ELSE DoubleShifted(sign, a, e, sticky, BitLen(a) - 53)

\* the double of the quotient d of x.m * 2^(5 limbs) by an int
DoubleOfQuotient(x, d) == RoundDouble(x.sign, d.q, x.e - 5 * LimbBits, d.rem # 0)

\* the float division x / n by an int n, 0 < n <= LimbBase
FDivInt(x, n) == DoubleOfQuotient(x, BigDiv(BigShl(x.m, 5 * LimbBits), n))

\* the float product x * k by an int k, 0 <= k <= LimbBase
FMulInt(x, k) == RoundDouble(x.sign, BigMul(x.m, k), x.e, FALSE)

\* float() of the amount of v thousandths as its decimal text gives it: the
\* double nearest to v / 1000
DoubleOf(v) ==
    FDivInt([sign |-> IF v < 0 THEN -1 ELSE 1,
             m |-> BigOf(IF v < 0 THEN 0 - v ELSE v), e |-> 0], 1000)

\* sx * a * 2^e - sy * b * 2^e as a double
DoubleOfDifference(sx, a, sy, b, e) ==
    RoundDouble(IF sx = sy /\ BigLess(a, b) THEN 0 - sx ELSE sx,
                IF sx # sy THEN BigSum(a, b, 1)
                ELSE IF BigLess(a, b) THEN BigSum(b, a, -1)
                ELSE BigSum(a, b, -1),
                e, FALSE)

\* the float difference x - y
FSub(x, y) ==
    DoubleOfDifference(x.sign, BigShl(x.m, x.e - Min(x.e, y.e)),
                       y.sign, BigShl(y.m, y.e - Min(x.e, y.e)), Min(x.e, y.e))

\* float(f"{x:.3f}") in thousandths: the decimal with three places nearest
\* to the double, a tie going to the even digit
Round3(x) == x.sign * BigInt(BigShrRound(BigMul(x.m, 1000), 0 - x.e, FALSE))

\* DfCreator._normalize_date: 'YYYY/MM/DD' whenever the value parses
NormalizeDateSlash(d) ==
    IF d.fmt \in {"Y/m/d", "m/d/Y", "Y-m-d"} THEN [d EXCEPT !.fmt = "Y/m/d"] ELSE d

\* the unit cost of an item tuple: rest[0] if rest else None
ItemCost(item) == IF Len(item) > 2 THEN item[3] ELSE NoCost

\* unit_cost is not None and float(unit_cost) > 0
CostPositive(cost) == cost.den # 0 /\ cost.num > 0

\* the float a unit cost is: line_total / q of seller_cloud_data.py 146
CostDouble(cost) == FDivInt(DoubleOf(cost.num), cost.den)

\* DfCreator._fallback_item_price, in floats as the code computes it: the
\* unit cost when positive, else (subtotal - tax - shipping) / max(n_items, 1)
FallbackItemPrice(order, n_items, unit_cost) ==
    IF CostPositive(unit_cost) THEN CostDouble(unit_cost)
    ELSE FDivInt(FSub(FSub(DoubleOf(OrZero(order.subtotal)), DoubleOf(OrZero(order.tax))),
                      DoubleOf(OrZero(order.shipping))),
                 Max(n_items, 1))

\* _fallback_item_price raises: float() of a non-numeric total
FallbackRaises(order, unit_cost) ==
    /\ ~CostPositive(unit_cost)
    /\ BadAmount \in {order.subtotal, order.tax, order.shipping}

AagBase(order) ==
    [ InvoiceNumber |-> order.order_id,
      SONumber |-> order.purchase_order_number,
      Date |-> NormalizeDateSlash(order.ship_date),
      Customer |-> "auto_accessories_garage",
      CarrierName |-> "FEDEX_GROUND",
      TrackingNumber |-> order.tracking_number ]

AagRow(base, item, qty, price) ==
    [ InvoiceNumber |-> base.InvoiceNumber, SONumber |-> base.SONumber,
      Date |-> base.Date, Customer |-> base.Customer,
      CarrierName |-> base.CarrierName, TrackingNumber |-> base.TrackingNumber,
      item |-> item, qty |-> qty, price |-> price ]

\* the item loop of _add_aag_rows: rows appended until an item cannot be
\* unpacked into (sku, qty, *rest) or its price cannot be computed
RECURSIVE AagItemRows(_, _, _, _)
AagItemRows(order, items, n_items, rows) ==
    IF items = <<>> THEN [ok |-> TRUE, rows |-> rows]
    ELSE LET item == Head(items)
         IN  IF Len(item) < 2 \/ FallbackRaises(order, ItemCost(item))
             THEN [ok |-> FALSE, rows |-> rows]
             ELSE LET qty == item[2]
                      price_each == FallbackItemPrice(order, n_items, ItemCost(item))
                      line_price == Round3(FMulInt(price_each, Max(qty, 1)))
                  IN  AagItemRows(order, Tail(items), n_items,
                         Append(rows, AagRow(AagBase(order), item[1], qty, line_price)))

\* a mutation of _add_aag_rows: the SHIPPING trailer is forgotten
AddAagRowsNoShipping(rows, order) ==
    LET r == AagItemRows(order, order.items, Max(Len(order.items), 1), rows)
    IN  IF ~r.ok \/ order.tax = BadAmount THEN [ok |-> FALSE, rows |-> r.rows]
        ELSE [ok |-> TRUE,
              rows |-> Append(r.rows, AagRow(AagBase(order), "Taxes", 1, OrZero(order.tax)))]

\* DfCreator._add_aag_rows: the rows it leaves in _rows and whether it
\* returned (ok) or raised
AddAagRows(rows, order) ==
    LET n_items == Max(Len(order.items), 1)
        r == AagItemRows(order, order.items, n_items, rows)
        taxes == AagRow(AagBase(order), "Taxes", 1, OrZero(order.tax))
        shipping == AagRow(AagBase(order), "SHIPPING", 1, OrZero(order.shipping))
    IN  IF ~r.ok THEN r
        ELSE IF order.tax = BadAmount THEN [ok |-> FALSE, rows |-> r.rows]
        ELSE IF order.shipping = BadAmount
        THEN [ok |-> FALSE, rows |-> Append(r.rows, taxes)]
        ELSE [ok |-> TRUE, rows |-> r.rows \o <<taxes, shipping>>]

DefaultBase(order) ==
    [ po_number |-> order.purchase_order_number,
      invoice_number |-> order.order_id,
      invoice_date |-> order.ship_date,
      invoice_total_amount |-> order.subtotal,
      invoice_subtotal_amount |-> SafeRound(FloatDiff(order.subtotal, order.tax)),
      invoice_tax_amount |-> order.tax ]

DefaultRow(base, sku, qty, unit_cost) ==
    [ po_number |-> base.po_number, invoice_number |-> base.invoice_number,
      invoice_date |-> base.invoice_date,
      invoice_total_amount |-> base.invoice_total_amount,
      invoice_subtotal_amount |-> base.invoice_subtotal_amount,
      invoice_tax_amount |-> base.invoice_tax_amount,
      line_item_sku |-> sku, line_item_quantity |-> qty,
      line_item_unit_cost |-> unit_cost ]

\* the item loop of _add_default_rows: item[1] of a one-element item raises
RECURSIVE DefaultItemRows(_, _, _)
DefaultItemRows(base, items, rows) ==
    IF items = <<>> THEN [ok |-> TRUE, rows |-> rows]
    ELSE LET item == Head(items)
         IN  IF Len(item) < 2 THEN [ok |-> FALSE, rows |-> rows]
             ELSE DefaultItemRows(base, Tail(items),
                     Append(rows, DefaultRow(base, item[1], item[2], ItemCost(item))))

\* DfCreator._add_default_rows: a non-numeric subtotal or tax raises in the
\* subtraction, before any row
AddDefaultRows(rows, order) ==
    IF BadAmount \in {order.subtotal, order.tax} THEN [ok |-> FALSE, rows |-> rows]
    ELSE DefaultItemRows(DefaultBase(order), order.items, rows)

\* a mutation of populate_df: no try/except around the row builders
PopulateDfUnguarded(fmt, rows, order) ==
    LET r == IF fmt = "aag" THEN AddAagRows(rows, order) ELSE AddDefaultRows(rows, order)
    IN  [ok |-> r.ok, rows |-> r.rows, raised |-> ~r.ok]

\* DfCreator.populate_df: the boolean it returns, _rows as it leaves them,
\* and whether an exception left it
PopulateDf(fmt, rows, order) ==
    LET r == IF fmt = "aag" THEN AddAagRows(rows, order) ELSE AddDefaultRows(rows, order)
    IN  [ok |-> r.ok, rows |-> r.rows, raised |-> FALSE]

\* the formats invoice_csv_headers has columns for; "edi" is a format
\* populate_df has no branch of its own for
HeaderFormats == {"default", "aag", "edi"}

\* DfCreator.to_dataframe: the rows under the columns of the format; the
\* frame is empty when there is no row
ToDataframe(fmt, rows) ==
    [empty |-> rows = <<>>, rows |-> rows]

\* DfCreator.to_csv_bytes: b"" for an empty frame, else header and rows
ToCsvBytes(fmt, rows) ==
    LET df == ToDataframe(fmt, rows)
    IN  IF df.empty THEN <<>> ELSE << <<"header", fmt>> >> \o df.rows

\* a mutation of save_data_to_file: the empty frame is written like any other
SaveDataToFileAlways(df, ftp_folder_name) ==
    [path |-> ftp_folder_name,
     written |-> << <<"header", ftp_folder_name>> >> \o df.rows]

\* FileHandler.save_data_to_file: False ("" here) and no file for an empty
\* frame, else the path of the file written for that folder
SaveDataToFile(df, ftp_folder_name) ==
    IF df.empty THEN [path |-> "", written |-> <<>>]
    ELSE [path |-> ftp_folder_name,
          written |-> << <<"header", ftp_folder_name>> >> \o df.rows]

\* -------------------------------------------------------- renderer harness
\* the SKU of the item at position k of an order
SkuAt(k) == CASE k = 1 -> "S1" [] k = 2 -> "S2" [] k = 3 -> "S3" [] OTHER -> "S9"

\* a unit cost of 9.99 as reconciliation attaches it: 19.98 / 2
PositiveCost == [num |-> 19980, den |-> 2]

\* the item tuples at position k: (sku, qty), (sku, qty, 0.0), (sku, qty, 9.99)
RenderItemsAt(k) ==
    { <<SkuAt(k), q>> : q \in 0..MaxQty }
    \cup { <<SkuAt(k), q, c>> : q \in 0..MaxQty, c \in {ZeroCost, PositiveCost} }

RenderItemLists ==
    UNION { { its \in [1..n -> UNION {RenderItemsAt(k) : k \in 1..n}] :
                \A k \in 1..n : its[k] \in RenderItemsAt(k) } : n \in 0..MaxItems }

RenderOrder(items, subtotal, tax, shipping) ==
    [ items |-> items,
      purchase_order_number |-> <<"P", "1">>,
      sellercloud_order_id |-> 101,
      tax |-> tax,
      shipping |-> shipping,
      subtotal |-> subtotal,
      code |-> <<"A">>,
      tracking_number |-> "TRK",
      ship_date |-> [fmt |-> "Y/m/d", y |-> 2025, m |-> 7, d |-> 7],
      city |-> "City", state |-> "ST", country |-> "US",
      postal_code |-> "Zip", address |-> "Street",
      dropshipper_name |-> "DropA",
      order_id |-> <<"A", "P", "1">> ]

\* the orders populate_df is given by a DfCreator of that format
RenderOrders(fmt) ==
    { RenderOrder(its, sub, tax, 5000) :
        its \in RenderItemLists, sub \in RenderSubtotals, tax \in RenderTaxes }

\* the boolean populate_df returned, as df_ok records it
OkOf(r) == IF r.raised THEN "raised" ELSE IF r.ok THEN "True" ELSE "False"

InitRender ==
    /\ MainIdle
    /\ QbFresh
    /\ NormIdle
    /\ SinkIdle
    /\ HttpIdle
    /\ df_pc = "ready"
    /\ df_fmt \in HeaderFormats
    /\ df_rows = <<>> /\ df_prev = <<>> /\ df_order = <<>>
    /\ df_ok = "none" /\ df_out = NoExport

\* populate_df on a DfCreator of that format
RenderPopulate ==
    /\ df_pc = "ready"
    /\ \E order \in RenderOrders(df_fmt) :
         LET r == PopulateDf(df_fmt, df_rows, order)
         IN  /\ df_order' = order
             /\ df_prev' = df_rows
             /\ df_rows' = r.rows
             /\ df_ok' = OkOf(r)
    /\ df_pc' = "populated"
    /\ UNCHANGED << mainVars, qbVars, normVars, sinkVars, httpVars, df_fmt, df_out >>

\* to_csv_bytes and save_data_to_file(to_dataframe(), folder) on the rows
RenderExport ==
    /\ df_pc = "populated"
    /\ df_out' = [ empty |-> ToDataframe(df_fmt, df_rows).empty,
                   csv |-> ToCsvBytes(df_fmt, df_rows),
                   path |-> SaveDataToFile(ToDataframe(df_fmt, df_rows), "folderA").path,
                   written |-> SaveDataToFile(ToDataframe(df_fmt, df_rows),
                                              "folderA").written ]
    /\ df_pc' = "exported"
    /\ UNCHANGED << mainVars, qbVars, normVars, sinkVars, httpVars, df_fmt, df_rows, df_prev,
                    df_order, df_ok >>

NextRender == RenderPopulate \/ RenderExport

\* one order rendered by a fresh DfCreator and exported
SpecRender == InitRender /\ [][NextRender]_vars

\* ------------------------------------------------------- renderer claims
\* the item rows and the trailer rows populate_df added for the last order
AddedRows == SubSeq(df_rows, Len(df_prev) + 1, Len(df_rows))

RECURSIVE SumPrices(_)
SumPrices(rows) == IF rows = <<>> THEN 0 ELSE Head(rows).price + SumPrices(Tail(rows))

\* the last populate_df call rendered an order in the aag layout
AagRendered == df_pc \in {"populated", "exported"} /\ df_fmt = "aag" /\ df_ok = "True"

\* the last populate_df call rendered an order in the default layout
DefaultRendered ==
    df_pc \in {"populated", "exported"} /\ df_fmt \in {"default", "edi"} /\ df_ok = "True"

NoPositiveCost(order) ==
    \A k \in 1..Len(order.items) : ~CostPositive(ItemCost(order.items[k]))

\* C11: fallback pricing sums correctly. For an aag order in which no item
\* has a positive unit cost, the prices of the item rows plus the Taxes price
\* plus the SHIPPING price equal the order's subtotal, up to the rounding of
\* each item row (half a thousandth per row).
C11_FallbackPricesSumToSubtotal ==
    (AagRendered /\ NoPositiveCost(df_order)) =>
        2 * Abs(SumPrices(AddedRows) - OrZero(df_order.subtotal)) <= Len(df_order.items)

\* C12: an aag order yields one row per item in item order, then exactly one
\* Taxes row and one SHIPPING row, each with qty 1 and the order's tax and
\* shipping as price, and every row repeats the same order-level fields.
C12_AagRowLayout ==
    AagRendered =>
        LET n == Len(df_order.items)
        IN  /\ Len(AddedRows) = n + 2
            /\ \A k \in 1..n :
                  /\ AddedRows[k].item = df_order.items[k][1]
                  /\ AddedRows[k].qty = df_order.items[k][2]
            /\ AddedRows[n + 1].item = "Taxes"
            /\ AddedRows[n + 1].qty = 1
            /\ AddedRows[n + 1].price = OrZero(df_order.tax)
            /\ AddedRows[n + 2].item = "SHIPPING"
            /\ AddedRows[n + 2].qty = 1
            /\ AddedRows[n + 2].price = OrZero(df_order.shipping)
            /\ \A k \in 1..(n + 2) :
                  /\ AddedRows[k].InvoiceNumber = df_order.order_id
                  /\ AddedRows[k].SONumber = df_order.purchase_order_number
                  /\ AddedRows[k].Date = NormalizeDateSlash(df_order.ship_date)
                  /\ AddedRows[k].TrackingNumber = df_order.tracking_number
                  /\ AddedRows[k].Customer = AddedRows[1].Customer
                  /\ AddedRows[k].CarrierName = AddedRows[1].CarrierName

C12_Witness ==
    /\ AagRendered
    /\ Len(df_order.items) = 2
    /\ Len(AddedRows) = 4
    /\ AddedRows[3].item = "Taxes" /\ AddedRows[3].price = 1600
    /\ AddedRows[4].item = "SHIPPING" /\ AddedRows[4].price = 5000

C12_WitnessNoItems ==
    /\ AagRendered
    /\ df_order.items = <<>>
    /\ Len(AddedRows) = 2

\* the per-item price of the aag layout, as a float: the unit cost when
\* positive, else the even split of subtotal - tax - shipping over the items
PerItemPrice(order, k) ==
    IF CostPositive(ItemCost(order.items[k])) THEN CostDouble(ItemCost(order.items[k]))
    ELSE FDivInt(FSub(FSub(DoubleOf(OrZero(order.subtotal)), DoubleOf(OrZero(order.tax))),
                      DoubleOf(OrZero(order.shipping))),
                 Len(order.items))

\* C13: in the aag layout the price of every item row is the per-item price
\* times the quantity written in the row, rounded to three decimals, for
\* every quantity, 0 included.
C13_LinePriceIsPriceTimesQty ==
    AagRendered =>
        \A k \in 1..Len(df_order.items) :
            AddedRows[k].price = Round3(FMulInt(PerItemPrice(df_order, k), AddedRows[k].qty))

\* v rounded to whole cents, a tie going away from zero (v in thousandths)
HalfUpCents(v) ==
    IF v >= 0 THEN 10 * ((v + 5) \div 10) ELSE 0 - 10 * ((5 - v) \div 10)

\* C14: the default layout has exactly one row per item, and in every row
\* invoice_subtotal_amount is subtotal - tax rounded to two decimals with
\* ties away from zero.
C14_DefaultSubtotalHalfUp ==
    DefaultRendered =>
        /\ Len(AddedRows) = Len(df_order.items)
        /\ \A k \in 1..Len(AddedRows) :
              AddedRows[k].invoice_subtotal_amount =
                  HalfUpCents(OrZero(df_order.subtotal) - OrZero(df_order.tax))

\* ------------------------------------------------ invoice builder claims
\* the entries qb_log keeps of the create_invoice call that returned at i
CallEntries(i) ==
    { j \in 1..Len(qb_log) : qb_log[j].n = qb_log[i].n /\ qb_log[j].step # "return" }

Returns == { i \in 1..Len(qb_log) : qb_log[i].step = "return" }

\* C15: when the vendor mapping has no entry, or no customer_id, for the
\* order's partner, create_invoice returns False without a customer lookup
\* and without Invoice.save, and no invoice is made out to a default customer.
C15_MissingCustomerNeverSaves ==
    /\ \A i \in Returns :
          VendorMapping(qb_log[i].ds).customer_id = 0 =>
              /\ ~qb_log[i].ok
              /\ \A j \in CallEntries(i) : qb_log[j].step \notin {"customer", "save"}
    /\ \A k \in 1..Len(qb_invoices) : qb_invoices[k].CustomerRef # 0

C15_Witness ==
    \E i \in Returns :
        /\ VendorMapping(qb_log[i].ds).customer_id = 0
        /\ ~qb_log[i].ok
        /\ CallEntries(i) = {}
        /\ Len(unable_to_invoice) > 0

\* C17: each of the five reference categories is looked up at most once
\* after its first successful lookup, and each customer id likewise; a cached
\* reference is never replaced; a lookup that raised leaves the cache empty,
\* so that the next create_invoice looks the reference up again.
C17_ReferencesFetchedOnce ==
    /\ \A i, j \in 1..Len(qb_log) :
          (/\ i < j
           /\ qb_log[i].step \notin {"return", "save"}
           /\ qb_log[i].ok
           /\ qb_log[j].step = qb_log[i].step)
          => qb_log[j].id # qb_log[i].id
    /\ \A c \in DOMAIN qb_refs :
          /\ qb_refs[c] # "" => qb_refs[c] = RefOf(c)
          /\ qb_refs[c] # "" <=>
                \E i \in 1..Len(qb_log) : qb_log[i].step = c /\ qb_log[i].ok
    /\ \A id \in qb_customers :
          \E i \in 1..Len(qb_log) :
              qb_log[i].step = "customer" /\ qb_log[i].id = id /\ qb_log[i].ok

\* a lookup raised, the next create_invoice repeated it with success, and a
\* later create_invoice did not look the reference up again
C17_Witness ==
    \E i, j, r \in 1..Len(qb_log) :
        /\ i < j /\ j < r
        /\ qb_log[i].step = "tax" /\ ~qb_log[i].ok
        /\ qb_log[j].step = "tax" /\ qb_log[j].ok
        /\ qb_log[r].step = "return" /\ qb_log[r].n > qb_log[j].n
        /\ \A k \in CallEntries(r) : qb_log[k].step \in {"customer", "save"}

\* ------------------------------------------------------ main()'s order loop
\* main.py 38-86 entered with a reconciled mapping: the loop over the
\* buckets and their orders, the upload and the end-of-run report. The
\* orders carry their amounts in thousandths, as the renderer's.
MaxLoopOrders == 3

\* the partners of the mapping; partner C has a file format the CSV header
\* table has no columns for
LoopCodes == {<<"A">>, <<"B">>, <<"C">>}

LoopFormat(code) ==
    IF code = <<"A">> THEN "aag" ELSE IF code = <<"B">> THEN "default" ELSE "xml"

LoopFolder(code) ==
    IF code = <<"A">> THEN "folderA" ELSE IF code = <<"B">> THEN "folderB" ELSE "folderC"

LoopName(code) ==
    IF code = <<"A">> THEN "DropA" ELSE IF code = <<"B">> THEN "DropB" ELSE "DropC"

\* the shapes of an order: well formed, or with an item tuple of one
\* element, which the row builders cannot unpack, in second or in first place
LoopShapes == {"good", "bad", "bad_first"}

LoopItems(shape) ==
    CASE shape = "good" -> << <<"S1", 1, PositiveCost>> >>
      [] shape = "bad" -> << <<"S1", 1, PositiveCost>>, <<"S2">> >>
      [] OTHER -> << <<"S1">> >>

LoopOrder(i, code, shape) ==
    [ RenderOrder(LoopItems(shape), 100000, 10000, 5000) EXCEPT
        !.purchase_order_number = RowPo(i, code),
        !.order_id = EnsureOrderId(code, RowPo(i, code)),
        !.sellercloud_order_id = 100 + i,
        !.code = code,
        !.dropshipper_name = LoopName(code) ]

\* the mapping get_invoice_ready_orders builds, bucket by bucket in order of
\* first appearance, from orders instead of rows
RECURSIVE LoopAssemble(_, _)
LoopAssemble(orders, result) ==
    IF orders = <<>> THEN result
    ELSE LET order == Head(orders)
             ds_key == <<order.code, LoopFolder(order.code)>>
             b == KeyIndex(result, ds_key)
         IN  IF b # 0
             THEN LoopAssemble(Tail(orders),
                    [result EXCEPT ![b].orders = Append(@, order)])
             ELSE LoopAssemble(Tail(orders),
                    Append(result, [ key |-> ds_key,
                                     orders |-> <<order>>,
                                     file_format_name |-> LoopFormat(order.code),
                                     ftp_folder_name |-> LoopFolder(order.code) ]))

\* the mappings the loop is entered with: up to MaxLoopOrders orders
LoopMappings ==
    UNION { { LoopAssemble([i \in 1..k |-> LoopOrder(i, cs[i], sh[i])], <<>>) :
                cs \in [1..k -> LoopCodes], sh \in [1..k -> LoopShapes] } :
            k \in 0..MaxLoopOrders }

\* what the accounting system holds when the run starts: nothing, or the
\* invoice of the first order of partner A
LoopInvoices ==
    { <<>>, << [NoInvoice EXCEPT !.DocNumber = LoopOrder(1, <<"A">>, "good").order_id,
                                 !.CustomerRef = 7] >> }

\* main.py 38-40, with orders_ready_to_invoice bound to the mapping
InitLoop ==
    /\ pc = "bucket" /\ run = 1
    /\ db_rows = <<>> /\ notifier = "none"
    /\ prev_ok = {} /\ zero_div = FALSE /\ log_entries = <<>> /\ log_pending = <<>>
    /\ ready \in LoopMappings
    /\ ds_keys = <<>> /\ ds_idx = 1 /\ ord_idx = 1
    /\ kept_orders = <<>> /\ notify_calls = <<>> /\ sc_last = NoFetch
    /\ main_orders = [kind |-> "dict", key |-> <<>>] /\ sc_errors = Unbound
    /\ unable_to_invoice = <<>> /\ already_invoiced = <<>> /\ file_paths = <<>>
    /\ qb_invoices \in LoopInvoices
    /\ qb_refs = NoRefs /\ qb_customers = {} /\ qb_log = <<>>
    /\ b_pc = "idle" /\ b_order = <<>> /\ b_found = NotFound /\ b_calls = 0
    /\ NormIdle
    /\ DfIdle
    /\ SinkIdle
    /\ HttpIdle

\* `if not invoice_id` / `if not success` of main.py 57, 64
FalsyNever(v) == FALSE

Falsy(v) == v = FALSE

\* main.py 43: DfCreator(invoice_csv_headers, dropshipper_data) raises
\* ValueError for a format without columns, and main with it
LoopBucketStartFails ==
    /\ pc = "bucket"
    /\ ds_idx <= Len(ready)
    /\ ready[ds_idx].file_format_name \notin HeaderFormats
    /\ MainRaise("ValueError")
    /\ UNCHANGED << envVars, scVars, callerVars, qbVars, normVars, dfVars, sinkVars, httpVars >>

\* main.py 42-45: a fresh DfCreator and FileHandler for the bucket
LoopBucketStart ==
    /\ pc = "bucket"
    /\ ds_idx <= Len(ready)
    /\ ready[ds_idx].file_format_name \in HeaderFormats
    /\ df_fmt' = ready[ds_idx].file_format_name
    /\ df_rows' = <<>> /\ df_prev' = <<>> /\ df_order' = <<>> /\ df_ok' = "none"
    /\ df_out' = NoExport
    /\ df_pc' = "ready"
    /\ ord_idx' = 1
    /\ pc' = "order"
    /\ UNCHANGED << log_entries, log_pending, envVars, ready, ds_keys, ds_idx, kept_orders,
                    notify_calls, sc_last, zero_div, callerVars, qbVars, normVars,
                    sinkVars, httpVars >>

LoopCurOrder == ready[ds_idx].orders[ord_idx]

LoopHasOrder == pc = "order" /\ ord_idx <= Len(ready[ds_idx].orders)

\* main.py 48-53: check_exist finds an invoice; the PO is listed under
\* already_invoiced and the order is left
LoopAlreadyInvoiced ==
    /\ LoopHasOrder
    /\ \E query \in {"ok", "error"} :
         /\ b_found' = CheckExist(qb_invoices, LoopCurOrder.order_id, query)
         /\ b_found'.found
    /\ already_invoiced' =
         Append(already_invoiced, <<ready[ds_idx].key, LoopCurOrder.purchase_order_number>>)
    /\ b_order' = LoopCurOrder
    /\ ord_idx' = ord_idx + 1
    /\ UNCHANGED << pc, log_entries, log_pending, envVars, ready, ds_keys, ds_idx, kept_orders,
                    notify_calls, sc_last, zero_div, main_orders, sc_errors,
                    unable_to_invoice, file_paths, qb_invoices, qb_refs, qb_customers,
                    qb_log, b_pc, b_calls, normVars, dfVars, sinkVars, httpVars >>

\* main.py 63-68 for an order that has an invoice id: populate_df, and the
\* PO listed under unable_to_invoice when it returns False
LoopPopulate(order) ==
    LET r == PopulateDf(df_fmt, df_rows, order)
    IN  /\ df_order' = order
        /\ df_prev' = df_rows
        /\ df_rows' = r.rows
        /\ df_ok' = OkOf(r)
        /\ df_pc' = "populated"
        /\ IF r.raised
           THEN /\ MainRaise("PopulateError")
                /\ UNCHANGED << unable_to_invoice, ord_idx >>
           ELSE /\ unable_to_invoice' =
                     IF Falsy(r.ok)
                     THEN Append(unable_to_invoice,
                                 <<ready[ds_idx].key, order.purchase_order_number>>)
                     ELSE unable_to_invoice
                /\ ord_idx' = ord_idx + 1
                /\ UNCHANGED << pc, log_entries, log_pending >>

\* main.py 48-68 as written: check_exist finds nothing, the invoice id is the
\* constant "TEST_ONLY_NO_QB", and the order is rendered
LoopOrderStep ==
    /\ LoopHasOrder
    /\ \E query \in {"ok", "error"} :
         /\ b_found' = CheckExist(qb_invoices, LoopCurOrder.order_id, query)
         /\ ~b_found'.found
    /\ b_order' = LoopCurOrder
    /\ LoopPopulate(LoopCurOrder)
    /\ UNCHANGED << envVars, ready, ds_keys, ds_idx, kept_orders, notify_calls,
                    sc_last, zero_div, main_orders, sc_errors, already_invoiced,
                    file_paths, qb_invoices, qb_refs, qb_customers, qb_log, b_pc,
                    b_calls, normVars, df_fmt, df_out, sinkVars, httpVars >>

\* main.py 72: save_data_to_file cannot create the directory or the file
LoopSaveFails ==
    /\ pc = "order"
    /\ ord_idx > Len(ready[ds_idx].orders)
    /\ ~ToDataframe(df_fmt, df_rows).empty
    /\ MainRaise("OSError")
    /\ UNCHANGED << envVars, scVars, callerVars, qbVars, normVars, dfVars, sinkVars, httpVars >>

\* main.py 72-74: the bucket's rows are saved and the path, when there is
\* one, joins file_paths
LoopBucketEnd ==
    /\ pc = "order"
    /\ ord_idx > Len(ready[ds_idx].orders)
    /\ LET df == ToDataframe(df_fmt, df_rows)
           file == SaveDataToFile(df, ready[ds_idx].ftp_folder_name)
       IN  /\ df_out' = [ empty |-> df.empty, csv |-> ToCsvBytes(df_fmt, df_rows),
                          path |-> file.path, written |-> file.written ]
           /\ file_paths' = IF file.path # "" THEN Append(file_paths, file.path)
                            ELSE file_paths
    /\ df_pc' = "exported"
    /\ ds_idx' = ds_idx + 1
    /\ pc' = "bucket"
    /\ UNCHANGED << log_entries, log_pending, envVars, ready, ds_keys, ord_idx, kept_orders,
                    notify_calls, sc_last, zero_div, main_orders, sc_errors,
                    unable_to_invoice, already_invoiced, qbVars, normVars, df_fmt,
                    df_rows, df_prev, df_order, df_ok, sinkVars, httpVars >>

\* main.py 76-77: upload_files on the paths when there is one; upload
\* errors stay inside upload_files
LoopUpload ==
    /\ pc = "bucket"
    /\ ds_idx > Len(ready)
    /\ uploads' = IF file_paths # <<>> THEN Append(uploads, file_paths) ELSE uploads
    /\ pc' = "report"
    /\ UNCHANGED << log_entries, log_pending, envVars, scVars, callerVars, qbVars, normVars, dfVars,
                    reports, httpVars >>

\* main.py 80: `if unable_to_invoice or already_invoiced`
ReportDueAlways(unable, already) == TRUE

ReportDue(unable, already) == unable # <<>> \/ already # <<>>

\* main.py 80-90: send_error_report when a mapping is not empty (a mail
\* server error stays inside it), then log_success("Completed successfully");
\* when log_success raises, the except clause runs log_error on the log
\* store's exception, on the same connection, and main ends raised, the
\* report already sent: a success row left pending by a failed commit is
\* written by the commit of log_error, before the failed row
LoopReport ==
    /\ pc = "report"
    /\ \E delivered \in BOOLEAN :
         reports' = IF ReportDue(unable_to_invoice, already_invoiced)
                    THEN Append(reports, [ unable |-> unable_to_invoice,
                                           already |-> already_invoiced,
                                           delivered |-> delivered ])
                    ELSE reports
    /\ \E store \in StoreOutcomes, again \in StoreOutcomes :
         IF LogSuccess(log_entries, log_pending, run, "Completed successfully",
                       store).raised
         THEN /\ pc' = "raised"
              /\ log_entries' =
                    LogError(log_entries,
                             LogSuccess(log_entries, log_pending, run,
                                        "Completed successfully", store).pending,
                             run, "LogError", again).entries
              /\ log_pending' =
                    LogError(log_entries,
                             LogSuccess(log_entries, log_pending, run,
                                        "Completed successfully", store).pending,
                             run, "LogError", again).pending
         ELSE /\ pc' = "done"
              /\ log_entries' = LogSuccess(log_entries, log_pending, run,
                                           "Completed successfully", store).entries
              /\ log_pending' = <<>>
    /\ UNCHANGED << envVars, scVars, callerVars, qbVars, normVars, dfVars, uploads,
                    httpVars >>

NextLoop ==
    \/ LoopBucketStartFails
    \/ LoopBucketStart
    \/ LoopAlreadyInvoiced
    \/ LoopOrderStep
    \/ LoopSaveFails
    \/ LoopBucketEnd
    \/ LoopUpload
    \/ LoopReport

\* the loop of main() as written, run once over a reconciled mapping
SpecLoop == InitLoop /\ [][NextLoop]_vars

\* the accounting-system call that raises during one create_invoice call
LoopFails == {"none", "tax", "customer", "save"}

\* main.py 48-68 with the invoice step main.py 55 names: create_invoice on
\* the order; a falsy result lists the PO under unable_to_invoice and the
\* order is left, else the order is rendered
LoopCreateStep ==
    /\ LoopHasOrder
    /\ \E query \in {"ok", "error"} :
         /\ b_found' = CheckExist(qb_invoices, LoopCurOrder.order_id, query)
         /\ ~b_found'.found
    /\ b_order' = LoopCurOrder
    /\ b_calls' = b_calls + 1
    /\ \E fail \in LoopFails :
         LET r == CreateInvoice(LoopCurOrder, qb_refs, qb_customers, fail)
         IN  /\ qb_refs' = r.refs
             /\ qb_customers' = r.customers
             /\ qb_invoices' = IF r.saved THEN Append(qb_invoices, r.invoice)
                               ELSE qb_invoices
             /\ qb_log' = qb_log \o CallLog(b_calls + 1, LoopCurOrder, r)
             /\ IF Falsy(r.ok)
                THEN /\ unable_to_invoice' =
                          Append(unable_to_invoice,
                                 <<ready[ds_idx].key, LoopCurOrder.purchase_order_number>>)
                     /\ ord_idx' = ord_idx + 1
                     /\ UNCHANGED << pc, log_entries, log_pending, df_pc, df_rows, df_prev,
                                     df_order, df_ok >>
                ELSE LoopPopulate(LoopCurOrder)
    /\ UNCHANGED << envVars, ready, ds_keys, ds_idx, kept_orders, notify_calls,
                    sc_last, zero_div, main_orders, sc_errors, already_invoiced,
                    file_paths, b_pc, normVars, df_fmt, df_out, sinkVars, httpVars >>

NextLoopCreate ==
    \/ LoopBucketStartFails
    \/ LoopBucketStart
    \/ LoopAlreadyInvoiced
    \/ LoopCreateStep
    \/ LoopSaveFails
    \/ LoopBucketEnd
    \/ LoopUpload
    \/ LoopReport

\* the loop of main() with create_invoice as its invoice step
SpecLoopCreate == InitLoop /\ [][NextLoopCreate]_vars

\* ------------------------------------------------------ order loop claims
Range(seq) == {seq[i] : i \in 1..Len(seq)}

IsPrefix(a, b) == Len(a) <= Len(b) /\ SubSeq(b, 1, Len(a)) = a

\* an item tuple of the order cannot be unpacked into (sku, qty, ...)
Malformed(order) == \E k \in 1..Len(order.items) : Len(order.items[k]) < 2

\* the order id a row of the format carries
RowOrderId(fmt, row) == IF fmt = "aag" THEN row.InvoiceNumber ELSE row.invoice_number

\* the orders of the current bucket the loop has gone through
OrdersDone == SubSeq(ready[ds_idx].orders, 1, ord_idx - 1)

ListedUnable(order) ==
    <<ready[ds_idx].key, order.purchase_order_number>> \in Range(unable_to_invoice)

ListedAlready(order) ==
    <<ready[ds_idx].key, order.purchase_order_number>> \in Range(already_invoiced)

\* C18: populate_df never raises; when the rows of an order cannot be built
\* it returns False, the rows of the orders populated before it are
\* unchanged, the PO is listed under unable_to_invoice, and every well-formed
\* order of the bucket gone through, before or after the failing one, has its
\* rows in to_dataframe.
C18_RenderFailureIsolated ==
    /\ df_ok # "raised"
    /\ \A i \in 1..Len(log_entries) : log_entries[i][3] # "PopulateError"
    /\ pc = "order" =>
          /\ IsPrefix(df_prev, df_rows)
          /\ df_ok = "False" => (df_order # <<>> /\ ListedUnable(df_order))
          /\ \A k \in 1..Len(OrdersDone) :
                LET order == OrdersDone[k]
                IN  /\ (~Malformed(order) /\ ~ListedAlready(order)) =>
                          \E j \in 1..Len(ToDataframe(df_fmt, df_rows).rows) :
                              RowOrderId(df_fmt, ToDataframe(df_fmt, df_rows).rows[j])
                                  = order.order_id
                    /\ Malformed(order) => (ListedUnable(order) \/ ListedAlready(order))

\* a well-formed order, then one that cannot be rendered, then a well-formed
\* one: the first and the third have their rows, the second is listed
C18_Witness ==
    /\ pc = "order"
    /\ ord_idx = 4
    /\ ~Malformed(OrdersDone[1]) /\ ~ListedAlready(OrdersDone[1])
    /\ Malformed(OrdersDone[2]) /\ ListedUnable(OrdersDone[2])
    /\ ~Malformed(OrdersDone[3])
    /\ df_ok = "True"
    /\ {OrdersDone[1].order_id, OrdersDone[3].order_id}
          \subseteq {RowOrderId(df_fmt, df_rows[j]) : j \in 1..Len(df_rows)}

\* the bucket main has just saved
SavedBucket == ready[ds_idx - 1]

\* C19: a bucket without any accumulated row gives an empty dataframe and
\* empty CSV bytes, save_data_to_file returns False and writes nothing, its
\* path is in no list given to upload_files, and no file written holds a
\* header only.
C19_EmptyBucketNoFile ==
    /\ (df_pc = "exported" /\ df_rows = <<>>) =>
          /\ df_out.empty
          /\ df_out.csv = <<>>
          /\ df_out.path = ""
          /\ df_out.written = <<>>
          /\ SavedBucket.ftp_folder_name \notin Range(file_paths)
          /\ \A u \in 1..Len(uploads) : SavedBucket.ftp_folder_name \notin Range(uploads[u])
    /\ df_out.written # <<>> => Len(df_out.written) > 1
    /\ \A u \in 1..Len(uploads) : uploads[u] # <<>>

\* the run ended with two buckets, the first uploaded, the second without a
\* row and without a file
C19_Witness ==
    /\ pc = "done"
    /\ Len(ready) = 2
    /\ df_pc = "exported" /\ df_rows = <<>>
    /\ df_out.path = ""
    /\ uploads = << <<ready[1].ftp_folder_name>> >>

\* the run went through the report step of main.py 80-84: it ended
\* normally, or it raised with every bucket behind it, which only the
\* log_success of line 86 can do
PastReport ==
    \/ pc = "done"
    \/ pc = "raised" /\ ds_idx > Len(ready)

RowsOf(order_id) ==
    { j \in 1..Len(df_rows) : RowOrderId(df_fmt, df_rows[j]) = order_id }

\* create_invoice was called for the order and returned False
InvoiceFailed(order) ==
    \E i \in Returns : qb_log[i].order_id = order.order_id /\ ~qb_log[i].ok

\* C16: create_invoice returns False whenever a reference lookup, the line
\* construction or Invoice.save fails, and never raises into main; the PO of
\* an order whose invoice step gave a falsy result is listed under
\* unable_to_invoice, the order has no export row, and the orders after it
\* in the bucket are still gone through.
C16_InvoiceFailureIsolated ==
    /\ \A i \in Returns :
          (\E j \in CallEntries(i) : ~qb_log[j].ok) => ~qb_log[i].ok
    /\ \A i \in 1..Len(log_entries) :
          log_entries[i][3] \in {"Completed successfully", "LogError", "ValueError",
                                  "OSError"}
    /\ pc = "order" =>
          /\ \A k \in 1..Len(OrdersDone) :
                InvoiceFailed(OrdersDone[k]) =>
                    /\ ListedUnable(OrdersDone[k])
                    /\ RowsOf(OrdersDone[k].order_id) = {}
          /\ \A k \in 1..Len(OrdersDone) :
                \/ ListedAlready(OrdersDone[k])
                \/ ListedUnable(OrdersDone[k])
                \/ RowsOf(OrdersDone[k].order_id) # {}

\* Invoice.save failed for the first order of a bucket, which is listed and
\* has no row; the second order was invoiced and rendered
C16_Witness ==
    /\ pc = "order"
    /\ ord_idx = 3
    /\ \E i \in Returns :
          /\ qb_log[i].order_id = OrdersDone[1].order_id
          /\ ~qb_log[i].ok
          /\ \E j \in CallEntries(i) : qb_log[j].step = "save" /\ ~qb_log[j].ok
    /\ ListedUnable(OrdersDone[1])
    /\ RowsOf(OrdersDone[1].order_id) = {}
    /\ RowsOf(OrdersDone[2].order_id) # {}
    /\ Len(qb_invoices) > 0

\* ------------------------------------------------- notification claims
\* C21: between the start of reconciliation and the end-of-run report the
\* pipeline delivers no notification about an individual order: no _notify
\* call of the run reaches a notifier, and the only message is the report.
C21_NoOrderLevelNotification ==
    \A i \in 1..Len(notify_calls) : ~notify_calls[i][3]

\* ------------------------------------------------------------ OMS client
\* SellerCloudAPI.__init__: max_retries defaults to 3
MaxRetriesDefault == 3

\* Retry(status_forcelist=(429, 500, 502, 503, 504))
StatusForcelist == {429, 500, 502, 503, 504}

\* the statuses for which the retry policy honours a Retry-After header
RetryAfterStatuses == {413, 429, 503}

\* what one GET /Orders/{id} sent through the session can meet: a connection
\* that cannot be opened, a response that cannot be read, or a response
GetAnswers ==
    { [kind |-> "connect_error", status |-> 0, retry_after |-> FALSE],
      [kind |-> "read_error", status |-> 0, retry_after |-> FALSE],
      [kind |-> "response", status |-> 413, retry_after |-> TRUE] }
    \cup { [kind |-> "response", status |-> st, retry_after |-> FALSE] :
             st \in {200, 404} \cup StatusForcelist }

\* a mutation of the retry policy: nothing is sent again
RetryDueNever(left, answer) == FALSE

\* the retry policy of _create_session, Retry(total=max_retries,
\* status_forcelist=..., allowed_methods={"GET"}, raise_on_status=False),
\* applied to the answer of a GET: `total` also counts connection and read
\* errors, and a Retry-After header is honoured while total is not 0
RetryDue(left, answer) ==
    \/ answer.kind \in {"connect_error", "read_error"}
    \/ /\ answer.kind = "response"
       /\ \/ answer.status \in StatusForcelist
          \/ left # 0 /\ answer.retry_after /\ answer.status \in RetryAfterStatuses

\* SellerCloudAPI(max_retries=...) is about to be built
InitHttp ==
    /\ MainIdle
    /\ QbFresh
    /\ NormIdle
    /\ DfIdle
    /\ SinkIdle
    /\ h_pc = "secrets"
    /\ h_max \in 0..MaxRetriesDefault
    /\ h_tokens = 0 /\ h_gets = 0 /\ h_retried = {} /\ h_result = NoAnswer

\* __init__ 35-41: AzureSecrets() and the two get_secret calls; when one of
\* them raises, RuntimeError leaves the constructor before any request
HttpSecrets ==
    /\ h_pc = "secrets"
    /\ \E secrets \in {"ok", "raises"} :
         h_pc' = IF secrets = "ok" THEN "token" ELSE "raised"
    /\ UNCHANGED << mainVars, qbVars, normVars, dfVars, sinkVars, h_max, h_tokens,
                    h_gets, h_retried, h_result >>

\* _get_token: one requests.post outside the session; a network error, a
\* status other than 200 or a body without access_token raise RuntimeError
HttpToken ==
    /\ h_pc = "token"
    /\ h_tokens' = h_tokens + 1
    /\ \E t \in {"ok", "network", "http", "no_token"} :
         h_pc' = IF t = "ok" THEN "ready" ELSE "raised"
    /\ UNCHANGED << mainVars, qbVars, normVars, dfVars, sinkVars, h_max, h_gets,
                    h_retried, h_result >>

\* get_order: one GET sent by the session; the retry policy sends it again
\* while retries are left, returns the last response when they are used up
\* on a status, and raises when they are used up on an error
HttpGet ==
    /\ h_pc = "ready"
    /\ h_gets' = h_gets + 1
    /\ \E answer \in GetAnswers :
         LET left == h_max - h_gets
         IN  IF RetryDue(left, answer) /\ left > 0
             THEN /\ h_retried' = h_retried \cup {answer}
                  /\ UNCHANGED << h_pc, h_result >>
             ELSE /\ h_result' = answer
                  /\ h_pc' = IF answer.kind = "response" THEN "returned" ELSE "raised"
                  /\ UNCHANGED h_retried
    /\ UNCHANGED << mainVars, qbVars, normVars, dfVars, sinkVars, h_max, h_tokens >>

NextHttp == HttpSecrets \/ HttpToken \/ HttpGet

\* one OMS client built and one order fetched through it
SpecHttp == InitHttp /\ [][NextHttp]_vars

\* C23: the GET of one order is sent again only after a response whose
\* status is 429, 500, 502, 503 or 504, is sent at most 1 + max_retries
\* times, and ends by returning the last response or raising; a response of
\* any other status is returned after one attempt.
C23_RetryOnlyOnListedStatus ==
    /\ \A a \in h_retried : a.kind = "response" /\ a.status \in StatusForcelist
    /\ h_gets <= 1 + h_max
    /\ (h_pc = "returned" /\ h_result.status \notin StatusForcelist /\ h_retried = {})
          => h_gets = 1

\* ------------------------------------------------- mutating calls
\* a mutation of delete_invoice: a failed Invoice.delete is sent once more
DeleteInvoiceRetrying(invoices, k, fail) ==
    [ ok |-> ~fail,
      invoices |-> IF fail THEN invoices
                   ELSE SubSeq(invoices, 1, k - 1) \o SubSeq(invoices, k + 1, Len(invoices)),
      calls |-> IF fail THEN << [step |-> "delete", id |-> k, ok |-> FALSE],
                               [step |-> "delete", id |-> k, ok |-> FALSE] >>
                ELSE << [step |-> "delete", id |-> k, ok |-> TRUE] >> ]

\* QbInvoice.delete_invoice on the k-th invoice the accounting system holds:
\* one Invoice.delete; True when it answered, False when it raised
DeleteInvoice(invoices, k, fail) ==
    [ ok |-> ~fail,
      invoices |-> IF fail THEN invoices
                   ELSE SubSeq(invoices, 1, k - 1) \o SubSeq(invoices, k + 1, Len(invoices)),
      calls |-> << [step |-> "delete", id |-> k, ok |-> ~fail] >> ]

\* delete_invoice called on an invoice the caller holds
BuilderDeleteInvoice ==
    /\ b_pc = "ready"
    /\ b_calls < MaxBuilds
    /\ qb_invoices # <<>>
    /\ \E k \in 1..Len(qb_invoices), fail \in BOOLEAN :
         LET r == DeleteInvoice(qb_invoices, k, fail)
             order == [dropshipper_name |-> "", order_id |-> qb_invoices[k].DocNumber]
         IN  /\ qb_invoices' = r.invoices
             /\ qb_log' = qb_log \o CallLog(b_calls + 1, order, r)
    /\ b_calls' = b_calls + 1
    /\ UNCHANGED << mainVars, normVars, dfVars, sinkVars, httpVars, qb_refs,
                    qb_customers, b_pc, b_order, b_found >>

\* invoice_fixer 28-32: the ship method replaced, its replacement, and the
\* invoice numbers that are left alone
WhatIs == "UPS Ground"

WhatNeedsToBe == "FEDEX Ground HD"

NotChangeThis ==
    { <<"AAG1629506-1704718">>, <<"AAG1631212-1706505">>, <<"AAG1631404-1706705">> }

\* the invoice numbers the CSV files can list, in lists of up to two
FixerIds == {o.order_id : o \in BuilderOrders} \cup NotChangeThis

FixerIdLists ==
    { <<>> } \cup { <<a>> : a \in FixerIds } \cup { <<a, b>> : a, b \in FixerIds }

\* the loop of fix_invoices over the listed numbers: Invoice.filter for each
\* number not left alone, and for the first invoice found, when its ship
\* method is WhatIs, the rewrite and one invoice.save. Nothing is caught: of
\* the requests sent (filters and saves, counted by `sent`) the one numbered
\* fail_at raises out of fix_invoices, after the saves before it changed
\* their invoices; a raising save leaves the held invoice as it was, and
\* fail_at = 0 or beyond the last request lets every request answer.
\* `calls` are the mutating requests sent so far
RECURSIVE FixInvoices(_, _, _, _, _)
FixInvoices(invoices, ids, fail_at, sent, calls) ==
    IF ids = <<>> THEN [ok |-> TRUE, invoices |-> invoices, calls |-> calls]
    ELSE LET id == Head(ids)
             hits == {k \in 1..Len(invoices) : invoices[k].DocNumber = id}
             first == CHOOSE k \in hits : \A j \in hits : k <= j
         IN  IF id \in NotChangeThis
             THEN FixInvoices(invoices, Tail(ids), fail_at, sent, calls)
             ELSE IF fail_at = sent + 1
             THEN [ok |-> FALSE, invoices |-> invoices, calls |-> calls]
             ELSE IF hits = {} \/ invoices[first].ShipMethodRef # WhatIs
             THEN FixInvoices(invoices, Tail(ids), fail_at, sent + 1, calls)
             ELSE IF fail_at = sent + 2
             THEN [ok |-> FALSE, invoices |-> invoices,
                   calls |-> Append(calls, [step |-> "save", id |-> id, ok |-> FALSE])]
             ELSE FixInvoices([invoices EXCEPT ![first].ShipMethodRef = WhatNeedsToBe],
                              Tail(ids), fail_at, sent + 2,
                              Append(calls, [step |-> "save", id |-> id, ok |-> TRUE]))

\* what qb_log keeps of the n-th call when it is fix_invoices: its save
\* requests and how it ended ("fixed": returned, or raised when not ok)
FixLog(n, r) ==
    [k \in 1..Len(r.calls) |->
        [n |-> n, ds |-> "", order_id |-> r.calls[k].id,
         step |-> r.calls[k].step, id |-> 0, ok |-> r.calls[k].ok]]
    \o << [n |-> n, ds |-> "", order_id |-> <<>>, step |-> "fixed", id |-> 0,
           ok |-> r.ok] >>

\* fix_invoices run on the accounting system; any one of its requests, or
\* none, raises
BuilderFixInvoices ==
    /\ b_pc = "ready"
    /\ b_calls < MaxBuilds
    /\ \E ids \in FixerIdLists :
         \E fail_at \in 0..(2 * Len(ids)) :
            LET r == FixInvoices(qb_invoices, ids, fail_at, 0, <<>>)
            IN  /\ qb_invoices' = r.invoices
                /\ qb_log' = qb_log \o FixLog(b_calls + 1, r)
    /\ b_calls' = b_calls + 1
    /\ UNCHANGED << mainVars, normVars, dfVars, sinkVars, httpVars, qb_refs,
                    qb_customers, b_pc, b_order, b_found >>

InitCalls == InitBuilder \/ InitHttp

NextCalls ==
    \/ BuilderCheckExist
    \/ BuilderAlreadyInvoiced
    \/ BuilderCreateInvoice
    \/ BuilderDeleteInvoice
    \/ BuilderFixInvoices
    \/ HttpSecrets
    \/ HttpToken
    \/ HttpGet

\* the calls sent out by the invoice builder, or by the OMS client
SpecCalls == InitCalls /\ [][NextCalls]_vars

\* the Invoice.save or Invoice.delete requests of the call that returned at i
MutatingEntries(i) ==
    { j \in CallEntries(i) : qb_log[j].step \in {"save", "delete"} }

\* the positions where qb_log keeps the end of a fix_invoices call
Fixed == { i \in 1..Len(qb_log) : qb_log[i].step = "fixed" }

\* the save requests of the fix_invoices call that ended at i
FixSaves(i) ==
    { j \in 1..Len(qb_log) : qb_log[j].n = qb_log[i].n /\ qb_log[j].step = "save" }

\* C22: a create_invoice call sends Invoice.save at most once and a
\* delete_invoice call sends Invoice.delete at most once, whatever the
\* outcome; a failed request makes the call return False; fix_invoices
\* sends Invoice.save at most once for an invoice number and ends by raising
\* when a save fails; the token POST is sent once, and only the OMS GET is
\* sent more than once.
C22_MutatingCallsNotRetried ==
    /\ \A i \in Returns :
          /\ Cardinality(MutatingEntries(i)) <= 1
          /\ \A j \in MutatingEntries(i) : ~qb_log[j].ok => ~qb_log[i].ok
    /\ \A i \in Fixed :
          /\ \A j, k \in FixSaves(i) : qb_log[j].order_id = qb_log[k].order_id => j = k
          /\ \A j \in FixSaves(i) : ~qb_log[j].ok => ~qb_log[i].ok
    /\ h_tokens <= 1
    /\ h_gets > 1 => h_retried # {}

\* one create_invoice call that sent its one Invoice.save, then a
\* fix_invoices call that raised after one of its saves had changed an
\* invoice, then a delete_invoice call whose one Invoice.delete failed and
\* that returned False
C22_Witness ==
    \E i, j \in Returns, f \in Fixed :
        /\ i < f /\ f < j
        /\ \E a \in MutatingEntries(i) : qb_log[a].step = "save" /\ qb_log[a].ok
        /\ Cardinality(MutatingEntries(i)) = 1
        /\ ~qb_log[f].ok
        /\ \E a \in FixSaves(f) : qb_log[a].ok
        /\ \E a \in MutatingEntries(j) : qb_log[a].step = "delete" /\ ~qb_log[a].ok
        /\ Cardinality(MutatingEntries(j)) = 1
        /\ ~qb_log[j].ok
        /\ \E k \in 1..Len(qb_invoices) : qb_invoices[k].ShipMethodRef = WhatNeedsToBe

\* ---------------------------------------------------- invoice line claims
\* the order an invoice held by the accounting system was built for
OrderOfInvoice(inv) == CHOOSE o \in BuilderOrders : o.order_id = inv.DocNumber

\* unit cost times quantity of an item tuple, 0 without a unit cost
ItemAmount(tup) ==
    IF Len(tup) > 2 THEN [num |-> tup[3].num * tup[2], den |-> tup[3].den]
    ELSE [num |-> 0, den |-> 1]

\* C24: an invoice built for an order with n items has n + 2 lines: one per
\* item in item order with amount unit cost times quantity (0 without a unit
\* cost), then one Taxes line and one Shipping line of quantity 1 whose
\* amounts are the order's tax and shipping; DocNumber is the order_id.
C24_InvoiceLineLayout ==
    \A i \in 1..Len(qb_invoices) :
        LET inv == qb_invoices[i]
            order == OrderOfInvoice(inv)
            n == Len(order.items)
        IN  /\ \E o \in BuilderOrders : o.order_id = inv.DocNumber
            /\ Len(inv.Line) = n + 2
            /\ \A k \in 1..n :
                  /\ inv.Line[k].Description = order.items[k][1]
                  /\ inv.Line[k].Qty = order.items[k][2]
                  /\ inv.Line[k].Amount.num * ItemAmount(order.items[k]).den
                       = ItemAmount(order.items[k]).num * inv.Line[k].Amount.den
            /\ inv.Line[n + 1].Description = "Taxes"
            /\ inv.Line[n + 1].Qty = 1
            /\ inv.Line[n + 1].Amount = [num |-> OrZero(order.tax), den |-> 1]
            /\ inv.Line[n + 2].Description = "Shipping"
            /\ inv.Line[n + 2].Qty = 1
            /\ inv.Line[n + 2].Amount = [num |-> OrZero(order.shipping), den |-> 1]

\* an invoice of an enriched two-item order and one of an order without unit
\* costs are held
C24_Witness ==
    /\ \E i \in 1..Len(qb_invoices) :
          /\ Len(qb_invoices[i].Line) = 4
          /\ qb_invoices[i].Line[1].Amount.num > 0
          /\ qb_invoices[i].Line[3].Amount.num > 0
    /\ \E i \in 1..Len(qb_invoices) :
          /\ qb_invoices[i].DocNumber = UnenrichedOrder.order_id
          /\ qb_invoices[i].Line[1].Amount.num = 0

\* ------------------------------------------------------ OMS fetch claims
\* what _fetch_sc_order did for the order reconciled last
LastFetch == FetchScOrder(ApiSignature, LastOrder.sellercloud_order_id, sc_last.outcome)

\* C25: _fetch_sc_order never raises: a missing order id, a transport
\* exception, a status other than 200 and an unparseable body all give None,
\* so that the order is noticed as a failed fetch and not as an unexpected
\* error; the parsed body is returned only for a 200 response.
C25_FetchNeverRaises ==
    sc_last # NoFetch =>
        /\ LastFetch.kind # "raise"
        /\ LastFetch.kind = "json" =>
              (sc_last.outcome.kind = "response" /\ sc_last.outcome.status = 200)
        /\ (notifier # "raises" /\ LastFetch.kind # "json") =>
              /\ sc_last.po \in NoticedPos("fetch_failed")
              /\ sc_last.po \notin NoticedPos("unexpected")

\* ------------------------------------------------ frame of the enrichment
\* the fields of an order _enrich_order_with_sc assigns
EnrichedFields == {"tax", "subtotal", "items"}

\* the order with that PO number differs from the assembled one in the
\* assigned fields only
FrameKept(o, a) == \A f \in (DOMAIN a) \ EnrichedFields : o[f] = a[f]

\* same SKUs in the same order, and every local quantity that was not zero
ItemsKept(o, a) ==
    /\ Len(o.items) = Len(a.items)
    /\ \A k \in 1..Len(a.items) :
          /\ o.items[k][1] = a.items[k][1]
          /\ a.items[k][2] # 0 => o.items[k][2] = a.items[k][2]

\* C26: _enrich_order_with_sc changes only tax, subtotal and items of the
\* order: PO number, order id, OMS id, shipping, ship date, tracking number
\* and the address fields stay as assembled, whether it succeeds or fails;
\* a surviving order keeps its SKU sequence and every non-zero local quantity.
C26_EnrichFrame ==
    /\ \A o \in SurvivingOrders :
          /\ FrameKept(o, AssembledOrder(o.purchase_order_number))
          /\ ItemsKept(o, AssembledOrder(o.purchase_order_number))
    /\ LastEnriched =>
          FrameKept(EnrichOrderWithSc(LastOrder, sc_last.outcome.body).order, LastOrder)

\* a surviving order got tax and subtotal from the OMS, kept a non-zero local
\* quantity and had a zero local quantity replaced by the OMS one
C26_Witness ==
    \E o \in SurvivingOrders :
        LET a == AssembledOrder(o.purchase_order_number)
        IN  /\ o.tax # a.tax /\ o.subtotal # a.subtotal
            /\ o.shipping = a.shipping
            /\ \E k \in 1..Len(a.items) : a.items[k][2] = 0 /\ o.items[k][2] > 0
            /\ \E k \in 1..Len(a.items) : a.items[k][2] # 0 /\ o.items[k][2] = a.items[k][2]

\* ---------------------------------------------------- check_exist claims
\* positions of the stored invoices whose DocNumber is the order id checked
CheckedHits == {k \in 1..Len(qb_invoices) : qb_invoices[k].DocNumber = b_order.order_id}

\* C27: check_exist never raises: it returns the first invoice whose
\* DocNumber is the number asked for, False when there is none, and False
\* when the query fails, whatever the accounting system holds.
C27_CheckExistTotal ==
    b_pc = "checked" =>
        /\ b_found.found =>
              /\ CheckedHits # {}
              /\ b_found.invoice.DocNumber = b_order.order_id
              /\ b_found.invoice = qb_invoices[CHOOSE k \in CheckedHits :
                                                 \A j \in CheckedHits : k <= j]
        /\ ~b_found.found => b_found = NotFound
        /\ CheckedHits = {} => b_found = NotFound
        /\ CheckExist(qb_invoices, b_order.order_id, "error") = NotFound
        /\ CheckExist(qb_invoices, b_order.order_id, "ok").found = (CheckedHits # {})

\* with the invoices of several orders stored, check_exist reported False
\* for an order that has an invoice, which only a failed query does
C27_Witness ==
    /\ b_pc = "checked"
    /\ Len(qb_invoices) >= 2
    /\ \E k \in 1..Len(qb_invoices) : qb_invoices[k].DocNumber # b_order.order_id
    /\ CheckedHits # {}
    /\ ~b_found.found

\* --------------------------------------------------- row set atomicity
\* C28: row construction is all-or-nothing per order: whenever populate_df
\* returns False, the row set holds no row of that order, so the rows are
\* those held before the call.
C28_RowsAllOrNothing ==
    (df_ok = "False" /\ df_order # <<>>) =>
        /\ RowsOf(df_order.order_id) = {}
        /\ df_rows = df_prev

\* ------------------------------------------------------ run status claims
\* the run-status entries the process logger wrote in the current run
RunEntries == {i \in 1..Len(log_entries) : log_entries[i][1] = run}

\* C29: every invocation of main that constructed the process logger ends
\* with exactly one run-status entry: 'success' when main returns normally,
\* the no-orders path included, 'failed' when an exception escapes.
C29_OneRunStatusEntry ==
    /\ pc \in {"returned", "done"} =>
          /\ Cardinality(RunEntries) = 1
          /\ \A i \in RunEntries : log_entries[i][2] = "success"
    /\ pc = "raised" =>
          /\ Cardinality(RunEntries) = 1
          /\ \A i \in RunEntries : log_entries[i][2] = "failed"

\* C30: whenever at least one order survives reconciliation, main consumes
\* the result of get_sellercloud_data as the mapping, takes every surviving
\* order through the existence check and the rendering and logs success,
\* whatever the number of surviving buckets.
C30_SurvivorsReachSuccess ==
    (ReconcileDone /\ SurvivingOrders # {}) =>
        /\ pc \notin {"unpack", "sc_loop"} => main_orders.kind # "key"
        /\ RunEnded =>
              /\ pc = "done"
              /\ \E i \in RunEntries : log_entries[i][2] = "success"

\* ------------------------------------------------------- process logger
\* rows one ProcessLogger of the harness has sent, durable or pending
MaxLogCalls == 3

\* the messages the harness passes; "" is the default msg
LogMessages == {"", "E1"}

\* a ProcessLogger was built and nothing logged yet
InitLogger ==
    /\ MainIdle
    /\ QbFresh
    /\ NormIdle
    /\ DfIdle
    /\ SinkIdle
    /\ HttpIdle

LoggerFrame ==
    UNCHANGED << pc, envVars, scVars, callerVars, qbVars, normVars, dfVars, sinkVars,
                 httpVars >>

\* logger.log_success(msg)
LoggerLogSuccess ==
    /\ Len(log_entries) + Len(log_pending) < MaxLogCalls
    /\ \E msg \in LogMessages, store \in StoreOutcomes :
         /\ log_entries' = LogSuccess(log_entries, log_pending, run, msg, store).entries
         /\ log_pending' = LogSuccess(log_entries, log_pending, run, msg, store).pending
    /\ LoggerFrame

\* logger.log_error(msg)
LoggerLogError ==
    /\ Len(log_entries) + Len(log_pending) < MaxLogCalls
    /\ \E msg \in LogMessages, store \in StoreOutcomes :
         /\ log_entries' = LogError(log_entries, log_pending, run, msg, store).entries
         /\ log_pending' = LogError(log_entries, log_pending, run, msg, store).pending
    /\ LoggerFrame

\* logger.log_info(msg)
LoggerLogInfo ==
    /\ Len(log_entries) + Len(log_pending) < MaxLogCalls
    /\ \E msg \in LogMessages, store \in StoreOutcomes :
         /\ log_entries' = LogInfo(log_entries, log_pending, run, msg, store).entries
         /\ log_pending' = LogInfo(log_entries, log_pending, run, msg, store).pending
    /\ LoggerFrame

\* logger.log_process(status, error_code) with any status
LoggerLogProcess ==
    /\ Len(log_entries) + Len(log_pending) < MaxLogCalls
    /\ \E status \in AllowedStatuses \cup {"bogus"}, code \in LogMessages \cup {"E2"},
          store \in StoreOutcomes :
         /\ log_entries' = LogProcess(log_entries, log_pending, run, status, code,
                                      store).entries
         /\ log_pending' = LogProcess(log_entries, log_pending, run, status, code,
                                      store).pending
    /\ LoggerFrame

NextLogger ==
    \/ LoggerLogSuccess
    \/ LoggerLogError
    \/ LoggerLogInfo
    \/ LoggerLogProcess

\* one process logger used through its public methods
SpecLogger == InitLogger /\ [][NextLogger]_vars

====
